---------------------------- MODULE Spec2Model ----------------------------
(***************************************************************************)
(* Model of the Git collaboration monitor backend:                         *)
(*   processor.py          parse_event, detect_conflicts                   *)
(*   redis_client.py       _retry, publish_event, get_recent_events,       *)
(*                         get_stats                                       *)
(*   websocket_manager.py  WebSocketManager.connect / disconnect /         *)
(*                         broadcast / start_redis_listener                *)
(*   main.py               receive_webhook, websocket_endpoint,            *)
(*                         /events/recent, /stats                          *)
(*                                                                         *)
(* Every coroutine is cut at its suspension points (the awaits on Redis,   *)
(* on a client socket and on asyncio.sleep); the code between two awaits   *)
(* is one atomic action, as it is on the asyncio event loop.               *)
(*                                                                         *)
(* Time is counted in minutes.  File paths and branch names are strings    *)
(* taken from small universes listed in their sorted order.                *)
(***************************************************************************)
EXTENDS Integers, Sequences, FiniteSets, TLC

(***************************************************************************)
(* Program constants                                                       *)
(***************************************************************************)
MAX_RECENT_EVENTS == 100

RETRIES == 3

RETRY_DELAY == 1

WINDOW_MINUTES == 10

WEBHOOK_RECENT_COUNT == 20

WS_RECENT_COUNT == 10

SEED_LIMIT == 10

EVENTS_RECENT_COUNT == 50

HIGH_SEVERITY_FILES == 3

MINUTES_PER_HOUR == 60

MINUTES_PER_DAY == 1440

(***************************************************************************)
(* Bounds of the model                                                     *)
(***************************************************************************)
MaxRequests == 2

MaxFailures == 3

MaxWebhooks == 2

MaxHubEvents == 2
MaxSendFailures == 1
MaxListenerFailures == 2
MaxPublishFailures == 2
ShortList == 3

\* Commits in one push payload.
MaxCommits == 2

\* Events ingested while connections are detached.
MaxDetachEvents == 1

\* Events in the list get_stats is called on.
MaxStatsEvents == 2

(***************************************************************************)
(* Universes                                                               *)
(***************************************************************************)
\* File paths, in sorted order.
FileNames == <<"a.py", "b.py", "c.py">>

\* Branch names (last ref segments), in sorted order; "" sorts first.
BranchNames == <<"", "auth", "dashboard", "dev", "main">>

Procs == {"p1", "p2"}

Conns == {"w1", "w2"}

Tasks == Procs \cup Conns

\* Instants at which the clock is observed: 0, exactly one conflict window
\* later, and one minute after that.
Times == {0, WINDOW_MINUTES, WINDOW_MINUTES + 1}

Nil == [nil |-> TRUE]

(***************************************************************************)
(* Generic helpers                                                         *)
(***************************************************************************)
Min(a, b) == IF a <= b THEN a ELSE b

Range(s) == {s[i] : i \in 1..Len(s)}

Reverse(s) == [i \in 1..Len(s) |-> s[Len(s) + 1 - i]]

Take(s, n) == SubSeq(s, 1, Min(n, Len(s)))

IsPrefix(s, t) == Len(s) <= Len(t) /\ s = SubSeq(t, 1, Len(s))

\* sorted(S) for S inside the universe listed in `order`.
Sorted(S, order) == SelectSeq(order, LAMBDA x : x \in S)

\* dict.get(key, default)
Get(d, key, default) == IF key \in DOMAIN d THEN d[key] ELSE default

\* A JSON object is held as the record of its members that are not null,
\* with the keys of its null members, when it has any, listed under "null".
IsNull(d, key) == key \in Get(d, "null", {})

\* Python's None where a text is expected; no text of the model equals it.
PyNone == "None"

\* d.get(key, default) for a member that is a text or null.
GetText(d, key, default) == IF IsNull(d, key) THEN PyNone ELSE Get(d, key, default)

(***************************************************************************)
(* processor.py                                                            *)
(***************************************************************************)
NoAlert == [type |-> "none"]

\* A timestamp is the ISO text of an instant.  IsoFormat is
\* datetime.isoformat() of an aware UTC datetime; NaiveIso is a text without
\* UTC offset, which parses to a naive datetime; a text that
\* datetime.fromisoformat rejects (ValueError) has iso = "malformed"; a
\* value that is not a text (None, a number), for which fromisoformat raises
\* TypeError, has iso = "notstr".
IsoFormat(t) == [iso |-> "aware", t |-> t]

NaiveIso(t) == [iso |-> "naive", t |-> t]

MalformedTs == [iso |-> "malformed"]

NotStrTs == [iso |-> "notstr"]

TsParses(ts) == ts.iso \in {"aware", "naive"}

\* The exception that leaves detect_conflicts.
TypeErrorRaised == [type |-> "raise", exc |-> "TypeError"]

\* new_ts - ev_ts is defined between two aware or two naive datetimes and
\* raises TypeError between an aware and a naive one.
Comparable(ts1, ts2) == ts1.iso = ts2.iso

FromIso(ts) == ts.t

\* _extract_files_changed: the sorted union of added, modified and removed
\* paths over all commits.
RECURSIVE CommitFiles(_, _)
CommitFiles(commits, i) ==
    IF i > Len(commits) THEN {}
    ELSE Range(Get(commits[i], "added", <<>>))
         \cup Range(Get(commits[i], "modified", <<>>))
         \cup Range(Get(commits[i], "removed", <<>>))
         \cup CommitFiles(commits, i + 1)

ExtractFilesChanged_AddedOnly(payload) ==
    LET commits == Get(payload, "commits", <<>>)
    IN  Sorted(UNION {Range(Get(commits[i], "added", <<>>)) : i \in DOMAIN commits},
               FileNames)

ExtractFilesChanged(payload) ==
    Sorted(CommitFiles(Get(payload, "commits", <<>>), 1), FileNames)

\* ref.split("/")[-1] if "/" in ref else ref.  A ref is held as the list of
\* its "/"-separated segments, so "/" in ref is Len(ref) > 1.
BranchOfRef_FirstSegment(ref) == ref[1]

BranchOfRef(ref) == IF Len(ref) > 1 THEN ref[Len(ref)] ELSE ref[1]

\* action == "closed" and merged
ClosedAndMerged_ClosedOnly(payload, no_action) ==
    Get(payload, "action", no_action) = "closed"

ClosedAndMerged(payload, no_action) ==
    /\ Get(payload, "action", no_action) = "closed"
    /\ Get(Get(payload, "pull_request", <<>>), "merged", FALSE)

\* generate_title when it returns.  A title is held as the record of the
\* values its f-string formats, `form` naming the f-string.
GenerateTitle(event_type, payload) ==
    LET sender == GetText(Get(payload, "sender", <<>>), "login", "someone")
        pr == Get(payload, "pull_request", <<>>)
        issue == Get(payload, "issue", <<>>)
        count == Len(Get(payload, "commits", <<>>))
    IN  CASE event_type = "push" ->
                 [form   |-> "pushed",
                  who    |-> GetText(Get(payload, "pusher", <<>>), "name", "someone"),
                  count  |-> count,
                  noun   |-> IF count = 1 THEN "commit" ELSE "commits",
                  branch |-> BranchOfRef(Get(payload, "ref", <<"">>))]
          [] event_type = "pull_request" ->
                 IF ClosedAndMerged(payload, "updated")
                 THEN [form   |-> "merged pull request",
                       who    |-> GetText(Get(pr, "user", <<>>), "login", "someone"),
                       number |-> Get(pr, "number", "?"),
                       base   |-> GetText(Get(pr, "base", <<>>), "ref", "main")]
                 ELSE [form   |-> "PR",
                       who    |-> GetText(Get(pr, "user", <<>>), "login", "someone"),
                       action |-> GetText(payload, "action", "updated"),
                       number |-> Get(pr, "number", "?"),
                       title  |-> GetText(pr, "title", "")]
          [] event_type \in {"create", "delete"} ->
                 [form     |-> IF event_type = "create" THEN "created" ELSE "deleted",
                  who      |-> sender,
                  ref_type |-> GetText(payload, "ref_type", "branch"),
                  ref_name |-> GetText(payload, "ref", "unknown")]
          [] event_type = "issues" ->
                 [form   |-> "issue",
                  who    |-> sender,
                  action |-> GetText(payload, "action", "updated"),
                  number |-> Get(issue, "number", "?"),
                  title  |-> GetText(issue, "title", "")]
          [] OTHER -> [form |-> "triggered", who |-> sender, event_type |-> event_type]

NormalizedType(event_type, payload) ==
    CASE event_type = "pull_request" ->
             IF ClosedAndMerged(payload, "")
             THEN "merge" ELSE "pull_request"
      [] event_type = "create" -> "branch_create"
      [] event_type = "delete" -> "branch_delete"
      [] OTHER -> event_type

BranchOfPayload(event_type, payload) ==
    CASE event_type = "push" -> BranchOfRef(Get(payload, "ref", <<"">>))
      [] event_type = "pull_request" ->
             GetText(Get(Get(payload, "pull_request", <<>>), "head", <<>>), "ref", "")
      [] event_type \in {"create", "delete"} -> GetText(payload, "ref", "")
      [] OTHER -> ""

\* The exceptions that leave parse_event.
NoExc == "none"

\* x.get(...) on None raises AttributeError; len(None), "/" in None and
\* set.update(None) raise TypeError.
RECURSIVE CommitsRaise(_, _)
CommitsRaise(commits, i) ==
    IF i > Len(commits) THEN NoExc
    ELSE IF \E k \in {"added", "modified", "removed"} : IsNull(commits[i], k)
         THEN "TypeError"
         ELSE CommitsRaise(commits, i + 1)

\* generate_title: the first exception its statements raise, if any.
TitleRaises(event_type, payload) ==
    LET pr == Get(payload, "pull_request", <<>>)
    IN  CASE event_type = "push" ->
                 IF IsNull(payload, "pusher") THEN "AttributeError"
                 ELSE IF IsNull(payload, "ref") \/ IsNull(payload, "commits")
                      THEN "TypeError" ELSE NoExc
          [] event_type = "pull_request" ->
                 IF \/ IsNull(payload, "pull_request")
                    \/ IsNull(pr, "user")
                    \/ /\ Get(payload, "action", "updated") = "closed"
                       /\ Get(pr, "merged", FALSE)
                       /\ IsNull(pr, "base")
                 THEN "AttributeError" ELSE NoExc
          [] event_type = "issues" ->
                 IF IsNull(payload, "issue") THEN "AttributeError" ELSE NoExc
          [] OTHER -> NoExc

\* parse_event: the first exception its statements raise, if any.
ParseRaises(event_type, payload) ==
    LET pr == Get(payload, "pull_request", <<>>)
    IN  IF IsNull(payload, "sender") \/ IsNull(payload, "repository")
        THEN "AttributeError"
        ELSE IF TitleRaises(event_type, payload) # NoExc
        THEN TitleRaises(event_type, payload)
        ELSE CASE event_type = "push" ->
                      CommitsRaise(Get(payload, "commits", <<>>), 1)
               [] event_type = "pull_request" ->
                      IF IsNull(pr, "head") \/ IsNull(pr, "base")
                      THEN "AttributeError" ELSE NoExc
               [] OTHER -> NoExc

\* event["details"], without the hashes and the URLs.
Details(event_type, payload) ==
    LET pr == Get(payload, "pull_request", <<>>)
    IN  CASE event_type = "push" -> [commits |-> Len(Get(payload, "commits", <<>>))]
          [] event_type = "pull_request" ->
                 [action        |-> GetText(payload, "action", ""),
                  source_branch |-> GetText(Get(pr, "head", <<>>), "ref", ""),
                  target_branch |-> GetText(Get(pr, "base", <<>>), "ref", ""),
                  merged        |-> Get(pr, "merged", FALSE)]
          [] event_type \in {"create", "delete"} ->
                 [ref_type |-> GetText(payload, "ref_type", "branch")]
          [] event_type = "issues" -> [action |-> GetText(payload, "action", "")]
          [] OTHER -> <<>>

\* parse_event when it returns; `clock` is datetime.now(timezone.utc) and
\* `id` the fresh uuid4.
ParseEvent(event_type, payload, clock, id) ==
    [id            |-> id,
     timestamp     |-> IsoFormat(clock),
     event_type    |-> NormalizedType(event_type, payload),
     actor         |-> GetText(Get(payload, "sender", <<>>), "login", "unknown"),
     actor_avatar  |-> GetText(Get(payload, "sender", <<>>), "avatar_url", ""),
     repository    |-> GetText(Get(payload, "repository", <<>>), "full_name",
                               "unknown/unknown"),
     branch        |-> BranchOfPayload(event_type, payload),
     title         |-> GenerateTitle(event_type, payload),
     details       |-> Details(event_type, payload),
     files_changed |-> IF event_type = "push"
                       THEN ExtractFilesChanged(payload) ELSE <<>>,
     alert         |-> NoAlert]

\* The body of the candidate loop of detect_conflicts for one candidate:
\* TRUE when a `continue` is taken.
CandidateSkipped_AnyBranch(new_branch, new_ts, cand) ==
    \/ Get(cand, "event_type", "None") # "push"
    \/ Get(cand, "branch", "") = ""
    \/ ~("timestamp" \in DOMAIN cand /\ TsParses(cand.timestamp))
    \/ (FromIso(new_ts) - FromIso(cand.timestamp)) > WINDOW_MINUTES

CandidateSkipped_WindowExclusive(new_branch, new_ts, cand) ==
    \/ Get(cand, "event_type", "None") # "push"
    \/ Get(cand, "branch", "") = new_branch
    \/ Get(cand, "branch", "") = ""
    \/ ~("timestamp" \in DOMAIN cand /\ TsParses(cand.timestamp))
    \/ (FromIso(new_ts) - FromIso(cand.timestamp)) >= WINDOW_MINUTES

CandidateSkipped_OlderOnly(new_branch, new_ts, cand) ==
    \/ Get(cand, "event_type", "None") # "push"
    \/ Get(cand, "branch", "") = new_branch
    \/ Get(cand, "branch", "") = ""
    \/ ~("timestamp" \in DOMAIN cand /\ TsParses(cand.timestamp))
    \/ (FromIso(new_ts) - FromIso(cand.timestamp)) > WINDOW_MINUTES
    \/ (FromIso(new_ts) - FromIso(cand.timestamp)) < 0

CandidateSkipped(new_branch, new_ts, cand) ==
    \/ Get(cand, "event_type", "None") # "push"
    \/ Get(cand, "branch", "") = new_branch
    \/ Get(cand, "branch", "") = ""
    \/ ~("timestamp" \in DOMAIN cand /\ TsParses(cand.timestamp))
    \/ (FromIso(new_ts) - FromIso(cand.timestamp)) > WINDOW_MINUTES

\* The candidate makes detect_conflicts raise: it passes the event_type and
\* branch tests and then its timestamp is not a text (TypeError, which
\* except (ValueError, KeyError) does not catch) or parses to a datetime that
\* cannot be subtracted from new_ts.
CandidateRaises(new_branch, new_ts, cand) ==
    /\ Get(cand, "event_type", "None") = "push"
    /\ Get(cand, "branch", "") \notin {new_branch, ""}
    /\ "timestamp" \in DOMAIN cand
    /\ \/ cand.timestamp.iso = "notstr"
       \/ TsParses(cand.timestamp) /\ ~Comparable(new_ts, cand.timestamp)

\* conflicting_files.extend(overlap), conflicting_files being read through
\* set() only.
Extend_Replace(files, overlap) == overlap

Extend(files, overlap) == files \cup overlap

\* The loop over recent_events, from candidate i on; acc holds
\* conflicting_files (as a set: it is only read through set()) and
\* conflict_branches.
RECURSIVE ScanCandidates(_, _, _, _, _, _)
ScanCandidates(new_files, new_branch, new_ts, recent, i, acc) ==
    IF i > Len(recent) THEN acc
    ELSE LET cand == recent[i]
             overlap == new_files \cap Range(Get(cand, "files_changed", <<>>))
         IN  IF CandidateRaises(new_branch, new_ts, cand)
             THEN [acc EXCEPT !.raised = TRUE]
             ELSE IF CandidateSkipped(new_branch, new_ts, cand) \/ overlap = {}
             THEN ScanCandidates(new_files, new_branch, new_ts, recent, i + 1, acc)
             ELSE ScanCandidates(new_files, new_branch, new_ts, recent, i + 1,
                      [files    |-> Extend(acc.files, overlap),
                       branches |-> acc.branches \cup {cand.branch},
                       raised   |-> FALSE])

Severity_AboveThree(unique_files) ==
    IF Len(unique_files) > HIGH_SEVERITY_FILES THEN "high" ELSE "medium"

Severity(unique_files) ==
    IF Len(unique_files) >= HIGH_SEVERITY_FILES THEN "high" ELSE "medium"

\* "branches": [new_branch] + branches_list
AlertBranches_NewLast(new_branch, branches_list) == branches_list \o <<new_branch>>

AlertBranches(new_branch, branches_list) == <<new_branch>> \o branches_list

\* detect_conflicts(new_event, recent_events); `clock` is the current time,
\* used when the new event's timestamp is missing or malformed.
DetectConflicts(new_event, recent_events, clock) ==
    IF Get(new_event, "event_type", "None") # "push" THEN NoAlert
    ELSE IF Range(Get(new_event, "files_changed", <<>>)) = {} THEN NoAlert
    ELSE IF "timestamp" \in DOMAIN new_event /\ new_event.timestamp.iso = "notstr"
    THEN TypeErrorRaised
    ELSE
      LET new_files  == Range(Get(new_event, "files_changed", <<>>))
          new_branch == Get(new_event, "branch", "")
          new_ts     == IF "timestamp" \in DOMAIN new_event
                           /\ TsParses(new_event.timestamp)
                        THEN new_event.timestamp ELSE IsoFormat(clock)
          found      == ScanCandidates(new_files, new_branch, new_ts, recent_events,
                                       1, [files |-> {}, branches |-> {}, raised |-> FALSE])
          unique_files  == Sorted(found.files, FileNames)
          branches_list == Sorted(found.branches, BranchNames)
      IN  IF found.raised THEN TypeErrorRaised
          ELSE IF found.files = {} THEN NoAlert
          ELSE [type              |-> "conflict_risk",
                severity          |-> Severity(unique_files),
                message           |-> [new_branch   |-> new_branch,
                                       other_branch |-> branches_list[1],
                                       first_file   |-> unique_files[1],
                                       more_files   |-> Len(unique_files) - 1],
                branches          |-> AlertBranches(new_branch, branches_list),
                conflicting_files |-> unique_files]

\* if alert: event["alert"] = alert
HasAlert(event) == event.alert # NoAlert

(***************************************************************************)
(* redis_client.py: the backend's list and channel commands                *)
(***************************************************************************)
\* json.dumps(event) / json.loads(item): the stored and published payload is
\* the text of the event, the event read back is the dictionary again.
JsonDumps(event) == [json |-> event]

JsonLoads(text) == text.json

\* LPUSH key value
LPush_ToBack(list, value) == list \o <<value>>

LPush(list, value) == <<value>> \o list

\* A Redis list index: negative indexes count from the tail.
ListIndex(list, k) == IF k < 0 THEN Len(list) + k ELSE k

\* LRANGE key start stop (both inclusive, out-of-range indexes clamped)
LRange(list, start, stop) ==
    LET s0 == ListIndex(list, start)
        e0 == ListIndex(list, stop)
        s  == IF s0 < 0 THEN 0 ELSE s0
        e  == IF e0 >= Len(list) THEN Len(list) - 1 ELSE e0
    IN  IF s > e \/ s >= Len(list) THEN <<>> ELSE SubSeq(list, s + 1, e + 1)

\* LTRIM key start stop keeps exactly the range LRANGE would return.
LTrim(list, start, stop) == LRange(list, start, stop)


\* The transaction publish_event queues and executes: PUBLISH, LPUSH, LTRIM.
\* PUBLISH reaches the listener's subscription only while it is subscribed.
ListAfterPush_KeepsOneMore(list, text) ==
    LTrim(LPush(list, text), 0, MAX_RECENT_EVENTS)

ListAfterPush(list, text) ==
    LTrim(LPush(list, text), 0, MAX_RECENT_EVENTS - 1)

ChannelAfterPublish(chan, isSubscribed, seq, text) ==
    IF isSubscribed THEN Append(chan, [seq |-> seq, data |-> text]) ELSE chan

\* get_recent_events._do: LRANGE 0 count-1, each item through json.loads.
RecentEvents(list, n) ==
    LET raw == LRange(list, 0, n - 1)
    IN  [i \in 1..Len(raw) |-> JsonLoads(raw[i])]

\* now.replace(hour=0, minute=0, second=0, microsecond=0), in minutes.
TodayStart_TrailingDay(clock) == clock - MINUTES_PER_DAY

TodayStart(clock) == clock - (clock % MINUTES_PER_DAY)

\* now - timedelta(hours=1)
OneHourAgo_SinceMidnight(clock) == clock - (clock % MINUTES_PER_DAY)

OneHourAgo(clock) == clock - MINUTES_PER_HOUR

\* get_stats._do over the stored list at time `clock`.  fromisoformat
\* failing with ValueError or TypeError skips the event; ts >= today_start
\* raises TypeError for a naive ts, now being aware.  _do raises the same in
\* every attempt of _retry, so get_stats raises it.
GetStats(list, clock) ==
    LET events       == RecentEvents(list, MAX_RECENT_EVENTS)
        today_start  == TodayStart(clock)
        one_hour_ago == OneHourAgo(clock)
        parsed == {i \in 1..Len(events) :
                      "timestamp" \in DOMAIN events[i] /\ TsParses(events[i].timestamp)}
        today  == {i \in parsed : FromIso(events[i].timestamp) >= today_start}
        hour   == {i \in parsed : FromIso(events[i].timestamp) >= one_hour_ago}
    IN  IF \E i \in parsed : ~Comparable(events[i].timestamp, IsoFormat(clock))
        THEN TypeErrorRaised
        ELSE [total_events_today  |-> Cardinality(today),
              active_contributors |->
                  Cardinality({Get(events[i], "actor", "") : i \in hour}),
              branches_modified   |->
                  Cardinality({Get(events[i], "branch", "") : i \in today} \ {""}),
              conflict_alerts     |->
                  Cardinality({i \in today : Get(events[i], "alert", NoAlert) # NoAlert})]

(***************************************************************************)
(* State                                                                   *)
(***************************************************************************)
VARIABLES
    \* the Redis backend
    window,        \* the list recent-events, newest first (texts)
    channel,       \* messages published on git-events, not yet read by the listener
    subscribed,    \* the listener's subscription to git-events is open
    now,           \* the clock
    \* one coroutine per HTTP request (Procs) or WebSocket endpoint (Conns)
    pc,            \* where the coroutine is suspended
    req,           \* the endpoint it serves
    op,            \* the store operation whose _retry loop it is in
    arg,           \* that operation's count argument
    ev,            \* receive_webhook's event
    attempt,       \* _retry's loop variable
    last_exc,      \* _retry's last_exc
    response,      \* what the endpoint returned or raised
    nRequests,     \* requests started
    nextId,        \* the next fresh event id
    failures,      \* failed backend calls and failed sends so far
    \* WebSocketManager and websocket_endpoint
    active,        \* _active_connections
    wsRecent,      \* websocket_endpoint's recent / connect's recent_events
    seedIdx,       \* connect's position in recent_events[:10]
    \* start_redis_listener and the broadcast it awaits
    lPc,           \* where the listener is suspended
    bMsg,          \* the message being broadcast
    bIterSize,     \* the set's size when the for loop's iterator was made
    bRemaining,    \* the connections the iterator has yet to yield
    bCur,          \* the connection whose send_text is awaited
    bDead,         \* broadcast's list dead
    \* detect_conflicts or parse_event called on its own
    dc,
    \* history (read by the properties only)
    pubCount,      \* PUBLISH commands executed
    earlier,       \* how many events the list held initially
    applied,       \* every text LPUSHed since, in order
    succeeded,     \* the texts LPUSHed since by attempts that returned
    tries,         \* outcomes of the attempts of the current _retry call
    naps,          \* delays slept in the current _retry call
    lastOp,        \* the last completed _retry call of each coroutine
    readFull,      \* ids of pushes whose whole window held a conflicting push
    readTop,       \* ids of pushes whose 20 newest entries held one
    seedSent,      \* events passed to send_json, per connection
    seedFailed,    \* a send_json of the connection raised
    received,      \* messages send_text delivered, per connection
    bStart,        \* the active set when the current pass started
    bAttempted,    \* connections send_text was called on in the current pass
    passes         \* the completed broadcast passes

backendVars == <<window, channel, subscribed, pubCount, earlier, applied, succeeded>>

taskVars == <<pc, req, op, arg, ev, attempt, last_exc, response, tries, naps, lastOp>>

countVars == <<nRequests, nextId, failures>>

readVars == <<readFull, readTop>>

connVars == <<active, wsRecent, seedIdx, seedSent, seedFailed, received>>

listenerVars == <<lPc, bMsg, bIterSize, bRemaining, bCur, bDead, bStart, bAttempted, passes>>

vars == <<backendVars, now, taskVars, countVars, readVars, connVars, listenerVars, dc>>

(***************************************************************************)
(* Inputs and initial states                                               *)
(***************************************************************************)
PushPayload(branch, files, who) ==
    [ref     |-> <<"refs", "heads", branch>>,
     commits |-> <<[added |-> files, modified |-> <<>>, removed |-> <<>>]>>,
     sender  |-> [login |-> who]]

\* The (X-GitHub-Event, payload) pairs the webhook is called with: pushes to
\* two branches, a push whose payload has no ref, and an issues event.
WebhookInputs ==
    {<<"push", PushPayload(b, f, "alice")>> :
         b \in {"dev", "main"}, f \in {<<"a.py">>, <<"b.py">>}}
    \cup {<<"push", [commits |-> <<[added |-> <<"a.py">>]>>,
                     sender  |-> [login |-> "carol"]]>>}
    \cup {<<"issues", [action |-> "opened", sender |-> [login |-> "bob"]]>>}

\* Events ingested before the modelled run starts, oldest first: a push to
\* dev touching a.py followed by issues events, all at time 0.
EarlierEvent(k) ==
    IF k = 1
    THEN [ParseEvent("push", PushPayload("dev", <<"a.py">>, "alice"), 0, 0 - k)
             EXCEPT !.id = 0 - k]
    ELSE ParseEvent("issues", [sender |-> [login |-> "bob"]], 0, 0 - k)

\* The stored list after n such events were appended one after the other.
WindowAfter(n) == [i \in 1..n |-> JsonDumps(EarlierEvent(n + 1 - i))]

InitBackend(n) ==
    /\ window = WindowAfter(n)
    /\ earlier = n
    /\ applied = <<>>
    /\ succeeded = <<>>
    /\ channel = <<>>
    /\ pubCount = 0
    /\ now = 0

InitTasks ==
    /\ pc = [t \in Tasks |-> "idle"]
    /\ req = [t \in Tasks |-> "none"]
    /\ op = [t \in Tasks |-> "none"]
    /\ arg = [t \in Tasks |-> 0]
    /\ ev = [t \in Tasks |-> Nil]
    /\ attempt = [t \in Tasks |-> 0]
    /\ last_exc = [t \in Tasks |-> Nil]
    /\ response = [t \in Tasks |-> Nil]
    /\ tries = [t \in Tasks |-> <<>>]
    /\ naps = [t \in Tasks |-> <<>>]
    /\ lastOp = [t \in Tasks |-> Nil]
    /\ nRequests = 0
    /\ nextId = 1
    /\ failures = 0
    /\ readFull = {}
    /\ readTop = {}

InitConns ==
    /\ active = {}
    /\ wsRecent = [c \in Conns |-> <<>>]
    /\ seedIdx = [c \in Conns |-> 0]
    /\ seedSent = [c \in Conns |-> <<>>]
    /\ seedFailed = [c \in Conns |-> FALSE]
    /\ received = [c \in Conns |-> <<>>]

InitListener(state) ==
    /\ lPc = state
    /\ subscribed = FALSE
    /\ bMsg = Nil
    /\ bIterSize = 0
    /\ bRemaining = {}
    /\ bCur = Nil
    /\ bDead = <<>>
    /\ bStart = {}
    /\ bAttempted = <<>>
    /\ passes = <<>>

(***************************************************************************)
(* The conflict a push is checked for, stated on its own                   *)
(***************************************************************************)
\* cand is a push on another, non-empty branch, not more than the window
\* older than new_event, that shares a file with it.
ConflictsWith(new_event, cand) ==
    /\ cand.event_type = "push"
    /\ cand.branch # ""
    /\ cand.branch # new_event.branch
    /\ "timestamp" \in DOMAIN cand
    /\ TsParses(cand.timestamp)
    /\ FromIso(new_event.timestamp) - FromIso(cand.timestamp) <= WINDOW_MINUTES
    /\ Range(new_event.files_changed) \cap Range(cand.files_changed) # {}

HoldsConflict(new_event, texts) ==
    \E i \in 1..Len(texts) : ConflictsWith(new_event, JsonLoads(texts[i]))

(***************************************************************************)
(* redis_client._retry and the three operations it wraps                   *)
(***************************************************************************)
\* How one attempt can end: it returns; it raises with nothing executed; or
\* (a write) it raises although the backend executed the transaction.
OpOutcomes(o) ==
    IF o = "publish_event" THEN {"ok", "fail", "fail_applied"} ELSE {"ok", "fail"}

\* The commands of the transaction of publish_event the backend executes
\* in an attempt with this outcome: PUBLISH, and LPUSH with LTRIM.  They are
\* queued on one pipeline and executed together.
PublishExecuted_OnlyOnSuccess(o, outcome) == o = "publish_event" /\ outcome = "ok"

PublishExecuted(o, outcome) == o = "publish_event" /\ outcome \in {"ok", "fail_applied"}

StoreExecuted_OnlyOnSuccess(o, outcome) == o = "publish_event" /\ outcome = "ok"

StoreExecuted_EveryOp(o, outcome) == outcome \in {"ok", "fail_applied"}

StoreExecuted(o, outcome) == o = "publish_event" /\ outcome \in {"ok", "fail_applied"}

\* What the awaited coro_factory() evaluates to.
OpValue(o, t) ==
    CASE o = "get_recent_events" -> RecentEvents(window, arg[t])
      [] o = "get_stats"         -> GetStats(window, now)
      [] OTHER                   -> Nil

\* if attempt < retries - 1: await asyncio.sleep(delay)
SleepsAfter(a) == a < RETRIES - 1

\* except Exception as exc: last_exc = exc.  The exception of attempt a (from
\* 0) of operation o is named by the pair.
CaughtExc_KeepsFirst(prev, o, a) ==
    IF prev = Nil THEN [op |-> o, attempt |-> a + 1] ELSE prev

CaughtExc(prev, o, a) == [op |-> o, attempt |-> a + 1]

\* receive_webhook between get_recent_events and publish_event.
WithAlert(event, recent, clock) ==
    LET alert == DetectConflicts(event, recent, clock)
    IN  IF alert # NoAlert THEN [event EXCEPT !.alert = alert] ELSE event

\* One attempt of the for loop of _retry in coroutine t, and, when the call
\* returns or raises, the caller's code up to its next await.
RetryAttempt(t, outcome) ==
    LET o         == op[t]
        ok        == outcome = "ok"
        executed  == StoreExecuted(o, outcome)
        published == PublishExecuted(o, outcome)
        text      == JsonDumps(ev[t])
        value     == OpValue(o, t)
        exhausted == ~ok /\ ~SleepsAfter(attempt[t])
        finished  == ok \/ exhausted
        log       == Append(tries[t], outcome)
        exc       == CaughtExc(last_exc[t], o, attempt[t])
        toPublish == ok /\ req[t] = "webhook" /\ o = "get_recent_events"
        toAccept  == ok /\ req[t] = "ws"
        leaves    == finished /\ ~toPublish /\ ~toAccept
    IN  /\ pc[t] = "attempt"
        /\ outcome \in OpOutcomes(o)
        /\ failures' = IF ok THEN failures ELSE failures + 1
        /\ window' = IF executed THEN ListAfterPush(window, text) ELSE window
        /\ channel' = IF published
                      THEN ChannelAfterPublish(channel, subscribed, pubCount + 1, text)
                      ELSE channel
        /\ pubCount' = IF published THEN pubCount + 1 ELSE pubCount
        /\ applied' = IF executed THEN Append(applied, text) ELSE applied
        /\ succeeded' = IF executed /\ ok THEN Append(succeeded, text) ELSE succeeded
        /\ tries' = [tries EXCEPT ![t] = IF finished THEN <<>> ELSE log]
        /\ naps' = [naps EXCEPT ![t] = IF finished THEN <<>> ELSE @]
        /\ lastOp' = [lastOp EXCEPT ![t] =
               IF finished
               THEN [op |-> o, tries |-> log, naps |-> naps[t],
                     result |-> IF ok THEN [kind |-> "return"]
                                ELSE [kind |-> "raise", exc |-> exc]]
               ELSE @]
        /\ last_exc' = [last_exc EXCEPT ![t] =
               IF finished THEN Nil ELSE exc]
        /\ attempt' = [attempt EXCEPT ![t] = IF finished THEN 0 ELSE @]
        /\ ev' = [ev EXCEPT ![t] =
               IF toPublish THEN WithAlert(@, value, now)
               ELSE IF finished THEN Nil ELSE @]
        /\ op' = [op EXCEPT ![t] =
               IF toPublish THEN "publish_event"
               ELSE IF finished THEN "none" ELSE @]
        /\ arg' = [arg EXCEPT ![t] = IF finished THEN 0 ELSE @]
        /\ pc' = [pc EXCEPT ![t] =
               IF toPublish THEN "attempt"
               ELSE IF toAccept THEN "accept"
               ELSE IF ~finished THEN "sleep"
               ELSE IF t \in Conns THEN "closed" ELSE "idle"]
        /\ req' = [req EXCEPT ![t] = IF leaves THEN "none" ELSE @]
        /\ response' = [response EXCEPT ![t] =
               IF ~leaves THEN @
               ELSE IF ~ok THEN [status |-> "error", exc |-> exc]
               ELSE IF o = "publish_event" THEN [status |-> "received"]
               ELSE [status |-> "ok", op |-> o, count |-> arg[t], body |-> value]]
        /\ wsRecent' = IF toAccept THEN [wsRecent EXCEPT ![t] = value] ELSE wsRecent
        /\ readFull' = IF toPublish /\ HoldsConflict(ev[t], window)
                       THEN readFull \cup {ev[t].id} ELSE readFull
        /\ readTop' = IF toPublish
                         /\ HoldsConflict(ev[t], LRange(window, 0, WEBHOOK_RECENT_COUNT - 1))
                      THEN readTop \cup {ev[t].id} ELSE readTop
        /\ UNCHANGED <<subscribed, earlier, now, nRequests, nextId, active, seedIdx, seedSent,
                       seedFailed, received, listenerVars, dc>>

\* await asyncio.sleep(delay), then the next iteration of the for loop.
RetrySleep(t) ==
    /\ pc[t] = "sleep"
    /\ pc' = [pc EXCEPT ![t] = "attempt"]
    /\ attempt' = [attempt EXCEPT ![t] = @ + 1]
    /\ naps' = [naps EXCEPT ![t] = Append(@, RETRY_DELAY)]
    /\ UNCHANGED <<backendVars, now, req, op, arg, ev, last_exc, response, tries, lastOp,
                   countVars, readVars, connVars, listenerVars, dc>>

\* A coroutine enters _retry(_do) for operation o with count n.
EnterRetry(t, endpoint, o, n, event) ==
    /\ pc' = [pc EXCEPT ![t] = "attempt"]
    /\ req' = [req EXCEPT ![t] = endpoint]
    /\ op' = [op EXCEPT ![t] = o]
    /\ arg' = [arg EXCEPT ![t] = n]
    /\ ev' = [ev EXCEPT ![t] = event]
    /\ attempt' = [attempt EXCEPT ![t] = 0]
    /\ last_exc' = [last_exc EXCEPT ![t] = Nil]
    /\ tries' = [tries EXCEPT ![t] = <<>>]
    /\ naps' = [naps EXCEPT ![t] = <<>>]
    /\ UNCHANGED <<response, lastOp>>

(***************************************************************************)
(* main.py: the HTTP endpoints                                             *)
(***************************************************************************)
\* POST /webhook up to its first await: parse_event, then get_recent_events(20)
\* for a push and publish_event for anything else.
ReceiveWebhook(t, event_type, payload) ==
    LET event == ParseEvent(event_type, payload, now, nextId)
    IN  /\ pc[t] = "idle"
        /\ nRequests' = nRequests + 1
        /\ nextId' = nextId + 1
        /\ IF event.event_type = "push"
           THEN EnterRetry(t, "webhook", "get_recent_events", WEBHOOK_RECENT_COUNT, event)
           ELSE EnterRetry(t, "webhook", "publish_event", 0, event)
        /\ UNCHANGED <<backendVars, now, failures, readVars, connVars, listenerVars, dc>>

\* GET /events/recent
EventsRecent(t) ==
    /\ pc[t] = "idle"
    /\ nRequests' = nRequests + 1
    /\ EnterRetry(t, "events_recent", "get_recent_events", EVENTS_RECENT_COUNT, Nil)
    /\ UNCHANGED <<backendVars, now, nextId, failures, readVars, connVars, listenerVars, dc>>

\* A caller awaits get_recent_events(n).
GetRecentEvents(t, n) ==
    /\ pc[t] = "idle"
    /\ EnterRetry(t, "call", "get_recent_events", n, Nil)
    /\ UNCHANGED <<backendVars, now, countVars, readVars, connVars, listenerVars, dc>>

\* GET /stats
Stats(t) ==
    /\ pc[t] = "idle"
    /\ nRequests' = nRequests + 1
    /\ EnterRetry(t, "stats", "get_stats", 0, Nil)
    /\ UNCHANGED <<backendVars, now, nextId, failures, readVars, connVars, listenerVars, dc>>

\* Time passes.
Tick ==
    /\ \E later \in Times : later > now /\ now' = later
    /\ UNCHANGED <<backendVars, taskVars, countVars, readVars, connVars, listenerVars, dc>>

(***************************************************************************)
(* websocket_manager.py and main.websocket_endpoint                        *)
(***************************************************************************)
\* recent_events[:10]
SeedOf_Uncapped(recent_events) == recent_events

SeedOf(recent_events) == Take(recent_events, SEED_LIMIT)

\* websocket_endpoint up to its first await: get_recent_events(n).  main.py
\* passes n = 10.
WsEndpoint(c, n) ==
    /\ pc[c] = "idle"
    /\ EnterRetry(c, "ws", "get_recent_events", n, Nil)
    /\ UNCHANGED <<backendVars, now, countVars, readVars, connVars, listenerVars, dc>>

\* What the for loop of a suspended broadcast still yields after the set
\* gained connection c: the new entry lies before or behind the iterator's
\* position, and a resize of the table moves every entry.
RemainingAfterAdd(c) ==
    IF lPc = "send" THEN SUBSET (active \cup {c}) ELSE {bRemaining}

\* connect: await websocket.accept() has returned; the connection is added
\* to the set and, if there is a seed, the first send_json is awaited.
WsAccept(c) ==
    /\ pc[c] = "accept"
    /\ active' = active \cup {c}
    /\ bRemaining' \in RemainingAfterAdd(c)
    /\ IF SeedOf(wsRecent[c]) # <<>>
       THEN /\ pc' = [pc EXCEPT ![c] = "seed"]
            /\ seedIdx' = [seedIdx EXCEPT ![c] = 1]
       ELSE /\ pc' = [pc EXCEPT ![c] = "open"]
            /\ UNCHANGED seedIdx
    /\ UNCHANGED <<backendVars, now, req, op, arg, ev, attempt, last_exc, response, tries,
                   naps, lastOp, countVars, readVars, wsRecent, seedSent, seedFailed,
                   received, lPc, bMsg, bIterSize, bCur, bDead, bStart, bAttempted,
                   passes, dc>>

\* connect: the awaited send_json(event) returns or raises; on an exception
\* the loop is left (break), after the last event connect returns.
WsSeedDone(c, outcome) ==
    LET seed == SeedOf(wsRecent[c])
        last == outcome # "ok" \/ seedIdx[c] = Len(seed)
    IN  /\ pc[c] = "seed"
        /\ seedSent' = [seedSent EXCEPT ![c] = Append(@, seed[seedIdx[c]])]
        /\ seedFailed' = [seedFailed EXCEPT ![c] = outcome # "ok"]
        /\ seedIdx' = [seedIdx EXCEPT ![c] = IF last THEN 0 ELSE @ + 1]
        /\ pc' = [pc EXCEPT ![c] = IF last THEN "open" ELSE "seed"]
        /\ failures' = IF outcome = "ok" THEN failures ELSE failures + 1
        /\ UNCHANGED <<backendVars, now, req, op, arg, ev, attempt, last_exc, response,
                       tries, naps, lastOp, nRequests, nextId, readVars, active, wsRecent,
                       received, listenerVars, dc>>

\* set.discard(websocket)
Discard_Clear(connections, c) == IF c \in connections THEN {} ELSE connections

Discard(connections, c) == connections \ {c}

\* websocket_endpoint: receive_text raises WebSocketDisconnect and
\* disconnect discards the connection.
WsDisconnect(c) ==
    /\ pc[c] = "open"
    /\ pc' = [pc EXCEPT ![c] = "closed"]
    /\ active' = Discard(active, c)
    /\ bRemaining' = bRemaining \ {c}
    /\ UNCHANGED <<backendVars, now, req, op, arg, ev, attempt, last_exc, response, tries,
                   naps, lastOp, countVars, readVars, wsRecent, seedIdx, seedSent,
                   seedFailed, received, lPc, bMsg, bIterSize, bCur, bDead, bStart,
                   bAttempted, passes, dc>>

\* manager.disconnect(c) called for any connection, attached or not; dc
\* keeps the call: the connection, the set before and the set after.
Disconnect(c) ==
    /\ active' = Discard(active, c)
    /\ bRemaining' = bRemaining \ {c}
    /\ dc' = [state |-> "returned", conn |-> c, before |-> active,
              after |-> Discard(active, c)]
    /\ UNCHANGED <<backendVars, now, taskVars, countVars, readVars, wsRecent, seedIdx,
                   seedSent, seedFailed, received, lPc, bMsg, bIterSize, bCur, bDead,
                   bStart, bAttempted, passes>>

\* start_redis_listener: await pubsub.subscribe("git-events")
ListenerSubscribe ==
    /\ lPc = "start"
    /\ lPc' = "listen"
    /\ subscribed' = TRUE
    /\ UNCHANGED <<window, channel, pubCount, earlier, applied, succeeded, now, taskVars,
                   countVars, readVars, connVars, bMsg, bIterSize, bRemaining, bCur,
                   bDead, bStart, bAttempted, passes, dc>>

\* The message pubsub.listen() yields next: the oldest one not yet read.
NextMessage_Newest(chan) == Len(chan)

NextMessage(chan) == 1

WithoutIndex(chan, k) == SubSeq(chan, 1, k - 1) \o SubSeq(chan, k + 1, Len(chan))

PassRecord(msg, start, attempts, raised, after) ==
    [seq |-> msg.seq, start |-> start, attempts |-> attempts, raised |-> raised,
     after |-> after]

\* The listener reads a message and calls broadcast(data): the for loop
\* starts; with no connection it ends at once, otherwise the first
\* send_text is awaited.
ListenerReceive ==
    /\ lPc = "listen"
    /\ channel # <<>>
    /\ LET k   == NextMessage(channel)
           msg == channel[k]
       IN  /\ channel' = WithoutIndex(channel, k)
           /\ IF active = {}
              THEN /\ passes' = Append(passes, PassRecord(msg, {}, <<>>, FALSE, {}))
                   /\ UNCHANGED <<lPc, bMsg, bIterSize, bRemaining, bCur, bStart>>
              ELSE /\ \E c \in active :
                         /\ bCur' = c
                         /\ bRemaining' = active \ {c}
                   /\ lPc' = "send"
                   /\ bMsg' = msg
                   /\ bIterSize' = Cardinality(active)
                   /\ bStart' = active
                   /\ UNCHANGED passes
    /\ UNCHANGED <<window, subscribed, pubCount, earlier, applied, succeeded, now, taskVars,
                   countVars, readVars, connVars, bDead, bAttempted, dc>>

\* for ws in dead: self._active_connections.discard(ws)
WithoutDead(conns, dead) == conns \ Range(dead)

\* broadcast: the awaited send_text returns or raises, and the for loop asks
\* its iterator for the next connection.  The iterator raises RuntimeError
\* when the set's size is not what it was when the loop started; the
\* listener catches that as Exception.  After the last connection the dead
\* ones are discarded and the listener awaits the next message.
BroadcastSendDone(outcome) ==
    LET dead     == IF outcome = "ok" THEN bDead ELSE Append(bDead, bCur)
        attempts == Append(bAttempted, <<bCur, outcome>>)
        resized  == Cardinality(active) # bIterSize
        ended    == ~resized /\ bRemaining = {}
        after    == IF ended THEN WithoutDead(active, dead) ELSE active
    IN  /\ lPc = "send"
        /\ outcome = "ok" => pc[bCur] # "closed"
        /\ received' = IF outcome = "ok"
                       THEN [received EXCEPT ![bCur] = Append(@, bMsg)]
                       ELSE received
        /\ active' = after
        /\ IF resized \/ ended
           THEN /\ lPc' = IF resized THEN "unsubscribe" ELSE "listen"
                /\ passes' = Append(passes,
                                    PassRecord(bMsg, bStart, attempts, resized, after))
                /\ bMsg' = Nil
                /\ bIterSize' = 0
                /\ bRemaining' = {}
                /\ bCur' = Nil
                /\ bDead' = <<>>
                /\ bStart' = {}
                /\ bAttempted' = <<>>
           ELSE /\ \E c \in bRemaining :
                      /\ bCur' = c
                      /\ bRemaining' = bRemaining \ {c}
                /\ bDead' = dead
                /\ bAttempted' = attempts
                /\ UNCHANGED <<lPc, passes, bMsg, bIterSize, bStart>>
        /\ failures' = IF outcome = "ok" THEN failures ELSE failures + 1
        /\ UNCHANGED <<backendVars, now, taskVars, nRequests, nextId, readVars, wsRecent,
                       seedIdx, seedSent, seedFailed, dc>>

\* pubsub.listen() raises inside the try block: except Exception.
ListenerStreamError ==
    /\ lPc = "listen"
    /\ lPc' = "unsubscribe"
    /\ failures' = failures + 1
    /\ UNCHANGED <<backendVars, now, taskVars, nRequests, nextId, readVars, connVars, bMsg,
                   bIterSize, bRemaining, bCur, bDead, bStart, bAttempted, passes, dc>>

\* lifespan: listener_task.cancel().  CancelledError is raised at the await
\* the listener is suspended in.  Inside the try block (waiting for a
\* message, or in a send of a broadcast, which catches Exception only) the
\* except asyncio.CancelledError handler is entered.  At
\* await pubsub.subscribe, which stands before the try block, and at the
\* awaits of the except Exception handler, the error leaves the coroutine;
\* a SUBSCRIBE that was being sent has reached the server or has not.
ListenerCancel ==
    /\ lPc \in {"start", "listen", "send", "unsubscribe", "close"}
    /\ lPc' = IF lPc \in {"listen", "send"} THEN "unsubscribe_c" ELSE "cancelled"
    /\ subscribed' \in IF lPc = "start" THEN BOOLEAN ELSE {subscribed}
    /\ bMsg' = Nil
    /\ bIterSize' = 0
    /\ bRemaining' = {}
    /\ bCur' = Nil
    /\ bDead' = <<>>
    /\ bStart' = {}
    /\ bAttempted' = <<>>
    /\ UNCHANGED <<window, channel, pubCount, earlier, applied, succeeded, now, taskVars,
                   countVars, readVars, connVars, passes, dc>>

\* await pubsub.unsubscribe("git-events") in either except handler.  When
\* the call raises, the error leaves the handler and the coroutine.
ListenerUnsubscribe(outcome) ==
    LET ok == outcome = "ok"
        byCancel == lPc = "unsubscribe_c"
    IN  /\ lPc \in {"unsubscribe", "unsubscribe_c"}
        /\ lPc' = IF ok THEN (IF byCancel THEN "close_c" ELSE "close")
                  ELSE (IF byCancel THEN "failed_c" ELSE "failed")
        /\ subscribed' = IF ok THEN FALSE ELSE subscribed
        /\ channel' = IF ok THEN <<>> ELSE channel
        /\ failures' = IF ok THEN failures ELSE failures + 1
        /\ UNCHANGED <<window, pubCount, earlier, applied, succeeded, now, taskVars,
                       nRequests, nextId, readVars, connVars, bMsg, bIterSize, bRemaining,
                       bCur, bDead, bStart, bAttempted, passes, dc>>

\* await pubsub.close(); the listener task ends.
ListenerClose ==
    /\ lPc \in {"close", "close_c"}
    /\ lPc' = IF lPc = "close" THEN "done" ELSE "done_c"
    /\ UNCHANGED <<backendVars, now, taskVars, countVars, readVars, connVars, bMsg,
                   bIterSize, bRemaining, bCur, bDead, bStart, bAttempted, passes, dc>>

(***************************************************************************)
(* Spec: the store under retry.  HTTP requests against the backend, whose  *)
(* attempts may fail, from an empty list or from one that is one entry     *)
(* short of its capacity.                                                  *)
(***************************************************************************)
StoreInputs ==
    {<<"issues", [action |-> "opened", sender |-> [login |-> "bob"]]>>}

Init ==
    /\ \E n \in {0, MAX_RECENT_EVENTS - 1} : InitBackend(n)
    /\ InitTasks
    /\ InitConns
    /\ InitListener("off")
    /\ dc = Nil

Next ==
    \/ \E t \in Procs : \E in \in StoreInputs :
           nRequests < MaxRequests /\ ReceiveWebhook(t, in[1], in[2])
    \/ \E t \in Procs : nRequests < MaxRequests /\ EventsRecent(t)
    \/ \E t \in Procs : nRequests < MaxRequests /\ Stats(t)
    \/ \E t \in Procs : \E outcome \in {"ok", "fail", "fail_applied"} :
           (outcome = "ok" \/ failures < MaxFailures) /\ RetryAttempt(t, outcome)
    \/ \E t \in Procs : RetrySleep(t)

Spec == Init /\ [][Next]_vars

(***************************************************************************)
(* SpecIngest: concurrent webhooks with every kind of payload while time   *)
(* passes, against a backend that answers.                                 *)
(***************************************************************************)
InitIngest ==
    /\ \E n \in {0, WEBHOOK_RECENT_COUNT + 1} : InitBackend(n)
    /\ InitTasks
    /\ InitConns
    /\ InitListener("off")
    /\ dc = Nil

NextIngest ==
    \/ \E t \in Procs : \E in \in WebhookInputs :
           nRequests < MaxWebhooks /\ ReceiveWebhook(t, in[1], in[2])
    \/ \E t \in Procs : RetryAttempt(t, "ok")
    \/ Tick

SpecIngest == InitIngest /\ [][NextIngest]_vars

(***************************************************************************)
(* SpecHub: the listener, WebSocket clients that attach, are seeded and    *)
(* detach, and webhooks that publish, against a backend that answers.  The *)
(* list starts empty, so seeds are short.                                  *)
(***************************************************************************)
InitHub ==
    /\ InitBackend(0)
    /\ InitTasks
    /\ InitConns
    /\ InitListener("start")
    /\ dc = Nil

NextHub ==
    \/ \E in \in StoreInputs :
           nRequests < MaxHubEvents /\ ReceiveWebhook("p1", in[1], in[2])
    \/ \E t \in {"p1"} \cup Conns : RetryAttempt(t, "ok")
    \/ \E c \in Conns : WsEndpoint(c, WS_RECENT_COUNT)
    \/ \E c \in Conns : WsAccept(c)
    \/ \E c \in Conns : \E outcome \in {"ok", "fail"} :
           (outcome = "ok" \/ failures < MaxSendFailures) /\ WsSeedDone(c, outcome)
    \/ \E c \in Conns : WsDisconnect(c)
    \/ ListenerSubscribe
    \/ ListenerReceive
    \/ \E outcome \in {"ok", "fail"} :
           (outcome = "ok" \/ failures < MaxSendFailures) /\ BroadcastSendDone(outcome)
    \/ ListenerUnsubscribe("ok")
    \/ ListenerClose

SpecHub == InitHub /\ [][NextHub]_vars

(***************************************************************************)
(* SpecDetach: connections attach, a broadcast prunes the ones whose send  *)
(* fails, and disconnect is called at any time for any connection.         *)
(***************************************************************************)
NextDetach ==
    \/ \E in \in StoreInputs :
           nRequests < MaxDetachEvents /\ ReceiveWebhook("p1", in[1], in[2])
    \/ \E t \in {"p1"} \cup Conns : RetryAttempt(t, "ok")
    \/ \E c \in Conns : WsEndpoint(c, WS_RECENT_COUNT)
    \/ \E c \in Conns : WsAccept(c)
    \/ \E c \in Conns : Disconnect(c)
    \/ ListenerSubscribe
    \/ ListenerReceive
    \/ \E outcome \in {"ok", "fail"} :
           (outcome = "ok" \/ failures < MaxSendFailures) /\ BroadcastSendDone(outcome)

SpecDetach == InitHub /\ [][NextDetach]_vars

(***************************************************************************)
(* SpecListener: the listener with errors and shutdown.  The upstream      *)
(* stream may raise, the unsubscribe of a handler may raise, and lifespan  *)
(* cancels the listener task at any point.                                 *)
(***************************************************************************)
NextListener ==
    \/ \E in \in StoreInputs :
           nRequests < MaxHubEvents /\ ReceiveWebhook("p1", in[1], in[2])
    \/ \E t \in {"p1"} \cup Conns : RetryAttempt(t, "ok")
    \/ \E c \in Conns : WsEndpoint(c, WS_RECENT_COUNT)
    \/ \E c \in Conns : WsAccept(c)
    \/ \E c \in Conns : WsSeedDone(c, "ok")
    \/ \E c \in Conns : WsDisconnect(c)
    \/ ListenerSubscribe
    \/ ListenerReceive
    \/ \E outcome \in {"ok", "fail"} :
           (outcome = "ok" \/ failures < MaxSendFailures) /\ BroadcastSendDone(outcome)
    \/ failures < MaxListenerFailures /\ ListenerStreamError
    \/ \E outcome \in {"ok", "fail"} :
           (outcome = "ok" \/ failures < MaxListenerFailures) /\ ListenerUnsubscribe(outcome)
    \/ ListenerClose
    \/ ListenerCancel

SpecListener == InitHub /\ [][NextListener]_vars

(***************************************************************************)
(* SpecSeed: clients attach to a list that holds fewer events than a seed  *)
(* or more.  websocket_endpoint reads 10 events; a caller of connect that  *)
(* supplies more than the seed limit reads 12.                             *)
(***************************************************************************)
SuppliedCounts == {WS_RECENT_COUNT, WS_RECENT_COUNT + 2}

InitSeed ==
    /\ \E n \in {ShortList, WS_RECENT_COUNT + 2} : InitBackend(n)
    /\ InitTasks
    /\ InitConns
    /\ InitListener("off")
    /\ dc = Nil

NextSeed ==
    \/ \E c \in Conns : \E n \in SuppliedCounts : WsEndpoint(c, n)
    \/ \E c \in Conns : RetryAttempt(c, "ok")
    \/ \E c \in Conns : WsAccept(c)
    \/ \E c \in Conns : \E outcome \in {"ok", "fail"} :
           (outcome = "ok" \/ failures < MaxSendFailures) /\ WsSeedDone(c, outcome)
    \/ \E c \in Conns : WsDisconnect(c)

SpecSeed == InitSeed /\ [][NextSeed]_vars

(***************************************************************************)
(* SpecRecent: get_recent_events(n) for counts from 0 to beyond the cap,   *)
(* on lists from empty to full.                                            *)
(***************************************************************************)
RecentCounts ==
    {0, 1, WS_RECENT_COUNT, WEBHOOK_RECENT_COUNT, EVENTS_RECENT_COUNT,
     MAX_RECENT_EVENTS + 1}

InitRecent ==
    /\ \E n \in {0, ShortList, WS_RECENT_COUNT + 2, MAX_RECENT_EVENTS} : InitBackend(n)
    /\ InitTasks
    /\ InitConns
    /\ InitListener("off")
    /\ dc = Nil

NextRecent ==
    \/ \E t \in Procs : \E n \in RecentCounts : GetRecentEvents(t, n)
    \/ \E t \in Procs : RetryAttempt(t, "ok")

SpecRecent == InitRecent /\ [][NextRecent]_vars

(***************************************************************************)
(* SpecPublish: webhooks of every kind against a backend whose attempts    *)
(* may fail, with the listener subscribed to the channel.                  *)
(***************************************************************************)
\* One handler receives pushes, the other one issues events.
PublishInputs ==
    {<<"p1", "push", PushPayload("dev", <<"a.py">>, "alice")>>,
     <<"p2", "issues", [action |-> "opened", sender |-> [login |-> "bob"]]>>}

NextPublish ==
    \/ \E in \in PublishInputs :
           nRequests < MaxWebhooks /\ ReceiveWebhook(in[1], in[2], in[3])
    \/ \E t \in Procs : \E outcome \in {"ok", "fail", "fail_applied"} :
           (outcome = "ok" \/ failures < MaxPublishFailures) /\ RetryAttempt(t, outcome)
    \/ \E t \in Procs : RetrySleep(t)
    \/ ListenerSubscribe
    \/ ListenerReceive

SpecPublish == InitHub /\ [][NextPublish]_vars

(***************************************************************************)
(* SpecDetect: detect_conflicts called once on a new event and a list of   *)
(* at most two candidates.                                                 *)
(***************************************************************************)
\* The new event is stamped 20 unless its timestamp is malformed; the clock
\* reads 25 when detect_conflicts runs.
DetectNewEvents ==
    {[event_type |-> "push", branch |-> b, files_changed |-> f, timestamp |-> ts] :
         b \in {"", "main"},
         f \in {<<>>, <<"a.py">>, <<"a.py", "b.py", "c.py">>},
         ts \in {IsoFormat(20), MalformedTs}}
    \cup {[event_type |-> "pull_request", branch |-> "main",
           files_changed |-> <<"a.py">>, timestamp |-> IsoFormat(20)]}

\* Candidates 15 and 10 minutes older, 3 minutes older, 5 minutes newer, and
\* with a malformed timestamp.
DetectCandidates ==
    {[event_type |-> "push", branch |-> b, files_changed |-> f, timestamp |-> ts] :
         b \in {"", "dev", "main"},
         f \in {<<"a.py">>, <<"b.py", "c.py">>, <<"a.py", "b.py", "c.py">>},
         ts \in {IsoFormat(5), IsoFormat(10), IsoFormat(17), IsoFormat(25), MalformedTs}}
    \cup {[event_type |-> "issues", branch |-> "dev",
           files_changed |-> <<"a.py">>, timestamp |-> IsoFormat(17)]}

DetectRecentLists ==
    {<<>>} \cup {<<c>> : c \in DetectCandidates}
           \cup {<<c1, c2>> : c1 \in DetectCandidates, c2 \in DetectCandidates}

InitDetect ==
    /\ InitBackend(0)
    /\ InitTasks
    /\ InitConns
    /\ InitListener("off")
    /\ \E new \in DetectNewEvents : \E recent \in DetectRecentLists :
           dc = [state |-> "call", new |-> new, recent |-> recent, clock |-> 25,
                 result |-> Nil]

DetectCall ==
    /\ dc.state = "call"
    /\ dc' = [dc EXCEPT !.state = "returned",
                        !.result = DetectConflicts(dc.new, dc.recent, dc.clock)]
    /\ UNCHANGED <<backendVars, now, taskVars, countVars, readVars, connVars, listenerVars>>

NextDetect == DetectCall

SpecDetect == InitDetect /\ [][NextDetect]_vars

(***************************************************************************)
(* SpecDetectTs: detect_conflicts called once on events whose timestamps   *)
(* are aware or naive ISO texts, malformed texts, values that are not      *)
(* texts, or missing.  The clock reads 25.                                 *)
(***************************************************************************)
TsKinds == {IsoFormat(17), NaiveIso(17), MalformedTs, NotStrTs}

TsNewEvents ==
    {[event_type |-> "push", branch |-> "main", files_changed |-> <<"a.py">>,
      timestamp |-> ts] : ts \in {IsoFormat(20), NaiveIso(20), MalformedTs, NotStrTs}}
    \cup {[event_type |-> "push", branch |-> "main", files_changed |-> <<"a.py">>]}

TsCandidates ==
    {[event_type |-> "push", branch |-> "dev", files_changed |-> <<"a.py">>,
      timestamp |-> ts] : ts \in TsKinds}
    \cup {[event_type |-> "push", branch |-> "dev", files_changed |-> <<"a.py">>]}
    \cup {[event_type |-> "push", branch |-> "main", files_changed |-> <<"a.py">>,
           timestamp |-> NaiveIso(17)]}

InitDetectTs ==
    /\ InitBackend(0)
    /\ InitTasks
    /\ InitConns
    /\ InitListener("off")
    /\ \E new \in TsNewEvents :
       \E recent \in {<<>>} \cup {<<c>> : c \in TsCandidates}
                            \cup {<<c1, c2>> : c1 \in TsCandidates, c2 \in TsCandidates} :
           dc = [state |-> "call", new |-> new, recent |-> recent, clock |-> 25,
                 result |-> Nil]

SpecDetectTs == InitDetectTs /\ [][NextDetect]_vars

(***************************************************************************)
(* SpecParse: parse_event called once, for every event kind, on partial    *)
(* payloads.  Each field the kind reads is absent, null, empty, filled, or *)
(* filled with null members.                                               *)
(***************************************************************************)
EventKinds == {"push", "pull_request", "create", "delete", "issues", "ping"}

FieldStates == {"absent", "null", "empty", "value", "nullmember"}

\* The payload fields parse_event and generate_title read for each kind.
KindFields(kind) ==
    {"sender", "repository"}
    \cup CASE kind = "push" -> {"pusher", "commits", "ref"}
           [] kind = "pull_request" -> {"pull_request", "head", "base", "user"}
           [] kind \in {"create", "delete"} -> {"ref"}
           [] kind = "issues" -> {"issue"}
           [] OTHER -> {}

\* The states a field is drawn in.
FieldStatesOf(f) ==
    IF f \in {"sender", "repository", "commits"} THEN FieldStates
    ELSE FieldStates \ {"nullmember"}

\* A JSON object from its members' states and values.
Object(keys, st, val) ==
    [k \in {f \in keys : st[f] \in {"empty", "value", "nullmember"}} \cup {"null"} |->
        IF k = "null" THEN {f \in keys : st[f] = "null"} ELSE val[k]]

EmptyObject == [null |-> {}]

\* The value of field f of a payload of the given kind in state st[f].
FieldValue(kind, f, st) ==
    LET filled == st[f] = "value"
    IN  CASE f = "sender" ->
                 IF filled THEN [login |-> "alice", avatar_url |-> "a.png"]
                 ELSE IF st[f] = "nullmember" THEN [null |-> {"login", "avatar_url"}]
                 ELSE EmptyObject
          [] f = "repository" ->
                 IF filled THEN [full_name |-> "org/repo"]
                 ELSE IF st[f] = "nullmember" THEN [null |-> {"full_name"}]
                 ELSE EmptyObject
          [] f = "pusher" -> IF filled THEN [name |-> "alice"] ELSE EmptyObject
          [] f = "commits" ->
                 IF filled THEN <<[added |-> <<"a.py">>, modified |-> <<>>]>>
                 ELSE IF st[f] = "nullmember"
                      THEN <<[added |-> <<"a.py">>, null |-> {"modified"}]>>
                 ELSE <<>>
          [] f = "ref" ->
                 IF kind = "push"
                 THEN (IF filled THEN <<"refs", "heads", "dev">> ELSE <<"">>)
                 ELSE (IF filled THEN "dev" ELSE "")
          [] f = "head" -> IF filled THEN [ref |-> "dev"] ELSE EmptyObject
          [] f = "base" -> IF filled THEN [ref |-> "main"] ELSE EmptyObject
          [] f = "user" -> IF filled THEN [login |-> "alice"] ELSE EmptyObject
          [] f = "issue" -> IF filled THEN [number |-> 7] ELSE EmptyObject

\* The payload of the given kind whose fields are in the states st; head,
\* base and user are members of pull_request.
PayloadOf(kind, st) ==
    LET inner == {"head", "base", "user"}
        top == KindFields(kind) \ inner
        pr == IF st["pull_request"] = "value"
              THEN Object(inner, st, [f \in inner |-> FieldValue(kind, f, st)])
              ELSE EmptyObject
    IN  Object(top, st,
               [f \in top |-> IF f = "pull_request" THEN pr
                              ELSE FieldValue(kind, f, st)])

\* parse_event as its caller sees it: the event or the exception.
ParseResult(event_type, payload, clock, id) ==
    IF ParseRaises(event_type, payload) # NoExc
    THEN [type |-> "raise", exc |-> ParseRaises(event_type, payload)]
    ELSE [type |-> "event", event |-> ParseEvent(event_type, payload, clock, id)]

InitParse ==
    /\ InitBackend(0)
    /\ InitTasks
    /\ InitConns
    /\ InitListener("off")
    /\ \E kind \in EventKinds :
       \E st \in [KindFields(kind) -> FieldStates] :
           /\ \A f \in KindFields(kind) : st[f] \in FieldStatesOf(f)
           /\ \A f \in {"head", "base", "user"} \cap KindFields(kind) :
                  st["pull_request"] # "value" => st[f] = "absent"
           /\ dc = [state |-> "call", event_type |-> kind, fields |-> st,
                    payload |-> PayloadOf(kind, st), clock |-> 0, result |-> Nil]

ParseCall ==
    /\ dc.state = "call"
    /\ dc' = [dc EXCEPT !.state = "returned",
                        !.result = ParseResult(dc.event_type, dc.payload, dc.clock, 1)]
    /\ UNCHANGED <<backendVars, now, taskVars, countVars, readVars, connVars, listenerVars>>

NextParse == ParseCall

SpecParse == InitParse /\ [][NextParse]_vars

(***************************************************************************)
(* SpecFiles: parse_event called once on payloads carrying up to MaxCommits *)
(* commits whose path lists are unordered and repeat paths, as a push and  *)
(* as kinds that are not a push.                                           *)
(***************************************************************************)
PathLists == {<<>>, <<"a.py">>, <<"b.py", "a.py">>, <<"c.py", "c.py">>}

CommitInputs ==
    {[added |-> a, modified |-> m, removed |-> r] :
         a \in PathLists, m \in PathLists, r \in {<<>>, <<"c.py", "a.py">>}}

InitFiles ==
    /\ InitBackend(0)
    /\ InitTasks
    /\ InitConns
    /\ InitListener("off")
    /\ \E kind \in {"push", "issues", "ping"} :
       \E n \in 0..MaxCommits :
       \E commits \in [1..n -> CommitInputs] :
           dc = [state |-> "call", event_type |-> kind,
                 payload |-> [ref |-> <<"refs", "heads", "dev">>, commits |-> commits],
                 clock |-> 0, result |-> Nil]

SpecFiles == InitFiles /\ [][NextParse]_vars

(***************************************************************************)
(* SpecTitles: parse_event called once on push payloads over refs with and *)
(* without "/", and on pull_request payloads over action and merged.       *)
(***************************************************************************)
\* Refs as "/"-separated segments: "main", "", "refs/heads/dev",
\* "refs/heads/feature/auth" (simulate_events.py BRANCHES) and "refs/heads/".
RefInputs ==
    {<<"main">>, <<"">>, <<"refs", "heads", "dev">>,
     <<"refs", "heads", "feature", "auth">>, <<"refs", "heads", "">>}

\* The JSON object with the members of `val` that are given: val[k] is <<>>
\* for an absent member and <<v>> for a member of value v.
Given(val) == [k \in {f \in DOMAIN val : val[f] # <<>>} |-> val[k][1]]

OneCommit == [added |-> <<"a.py">>]

InitTitles ==
    /\ InitBackend(0)
    /\ InitTasks
    /\ InitConns
    /\ InitListener("off")
    /\ \E payload \in
           {Given([ref |-> ref, pusher |-> pusher, commits |-> commits]) :
               ref \in {<<>>} \cup {<<r>> : r \in RefInputs},
               pusher \in {<<>>, <<[name |-> "alice"]>>},
               commits \in {<<>>, <<<<>>>>, <<<<OneCommit>>>>,
                            <<<<OneCommit, OneCommit>>>>}}
           \cup
           {Given([action |-> action,
                   pull_request |->
                       <<Given([merged |-> merged, base |-> base, number |-> number,
                                user |-> <<[login |-> "bob"]>>])>>]) :
               action \in {<<>>, <<"opened">>, <<"closed">>},
               merged \in {<<>>, <<TRUE>>, <<FALSE>>},
               base \in {<<>>, <<[ref |-> "main"]>>, <<[ref |-> "dev"]>>},
               number \in {<<>>, <<42>>}} :
           dc = [state |-> "call",
                 event_type |-> IF "pull_request" \in DOMAIN payload
                                THEN "pull_request" ELSE "push",
                 payload |-> payload, clock |-> 0, result |-> Nil]

SpecTitles == InitTitles /\ [][NextParse]_vars

(***************************************************************************)
(* SpecStats: get_stats called once on lists of up to MaxStatsEvents       *)
(* events, half an hour and two hours after midnight of the second day.    *)
(* The events are stamped the day before, within the hour before midnight, *)
(* at midnight and after it, or carry no usable timestamp.                 *)
(***************************************************************************)
StatsClocks == {MINUTES_PER_DAY + 30, MINUTES_PER_DAY + 2 * MINUTES_PER_HOUR}

StatsTimes ==
    {MINUTES_PER_DAY - MINUTES_PER_HOUR, MINUTES_PER_DAY - 30, MINUTES_PER_DAY - 1,
     MINUTES_PER_DAY, MINUTES_PER_DAY + MINUTES_PER_HOUR, MINUTES_PER_DAY + 90}

SomeAlert == [type |-> "conflict", severity |-> "low"]

\* Actor, branch and alert of the listed events.
StatsSubjects ==
    {[actor |-> "alice", branch |-> "dev", alert |-> SomeAlert],
     [actor |-> "alice", branch |-> "main", alert |-> NoAlert],
     [actor |-> "bob", branch |-> "", alert |-> NoAlert]}

StatsEventsOver(stamps) ==
    {[timestamp |-> ts, actor |-> x.actor, branch |-> x.branch, alert |-> x.alert] :
         ts \in stamps, x \in StatsSubjects}
    \cup {[actor |-> x.actor, branch |-> x.branch, alert |-> x.alert] :
              x \in StatsSubjects}

InitStatsOver(stamps) ==
    /\ InitBackend(0)
    /\ InitTasks
    /\ InitConns
    /\ InitListener("off")
    /\ \E clock \in StatsClocks :
       \E n \in 0..MaxStatsEvents :
       \E events \in [1..n -> StatsEventsOver(stamps)] :
           dc = [state |-> "call", clock |-> clock,
                 list |-> [i \in 1..n |-> JsonDumps(events[i])], result |-> Nil]

StatsCall ==
    /\ dc.state = "call"
    /\ dc' = [dc EXCEPT !.state = "returned", !.result = GetStats(dc.list, dc.clock)]
    /\ UNCHANGED <<backendVars, now, taskVars, countVars, readVars, connVars, listenerVars>>

NextStats == StatsCall

InitStats == InitStatsOver({IsoFormat(t) : t \in StatsTimes} \cup {MalformedTs})

SpecStats == InitStats /\ [][NextStats]_vars

(***************************************************************************)
(* SpecStatsTs: get_stats called once on lists whose events are stamped    *)
(* with an aware or a naive ISO text, a malformed text, a value that is    *)
(* not a text, or nothing.                                                 *)
(***************************************************************************)
InitStatsTs ==
    InitStatsOver({IsoFormat(MINUTES_PER_DAY), NaiveIso(MINUTES_PER_DAY),
                   MalformedTs, NotStrTs})

SpecStatsTs == InitStatsTs /\ [][NextStats]_vars

(***************************************************************************)
(* SpecStatsOnly: GET /stats requested concurrently and repeatedly, with   *)
(* failing attempts, while nothing is appended and the clock stands still. *)
(***************************************************************************)
InitStatsOnly ==
    /\ \E n \in {0, ShortList} : InitBackend(n)
    /\ InitTasks
    /\ InitConns
    /\ InitListener("off")
    /\ dc = Nil

NextStatsOnly ==
    \/ \E t \in Procs : nRequests < MaxRequests /\ Stats(t)
    \/ \E t \in Procs : \E outcome \in {"ok", "fail"} :
           (outcome = "ok" \/ failures < MaxFailures) /\ RetryAttempt(t, outcome)
    \/ \E t \in Procs : RetrySleep(t)

SpecStatsOnly == InitStatsOnly /\ [][NextStatsOnly]_vars

(***************************************************************************)
(* SpecBranches: two pushes handled one after the other: parse_event on    *)
(* the first, parse_event on the second, then detect_conflicts on the      *)
(* second with the first as the recent list.                               *)
(***************************************************************************)
\* refs/heads/ refs of branches with and without "/" in their names, two of
\* them ending in the same segment.
BranchRefs ==
    {<<"refs", "heads", "dev">>, <<"refs", "heads", "main">>,
     <<"refs", "heads", "feature", "auth">>, <<"refs", "heads", "hotfix", "auth">>,
     <<"refs", "heads", "feature", "dashboard">>}

BranchPush(ref, files) ==
    [ref |-> ref, commits |-> <<[added |-> files]>>, sender |-> [login |-> "alice"]]

\* The first push arrives at 0, the second one at 5 or at 11.
InitBranches ==
    /\ InitBackend(0)
    /\ InitTasks
    /\ InitConns
    /\ InitListener("off")
    /\ \E r1 \in BranchRefs : \E r2 \in BranchRefs :
       \E f1 \in {<<"a.py">>, <<"b.py">>} : \E f2 \in {<<"a.py">>, <<"a.py", "b.py">>} :
       \E at \in {5, 11} :
           dc = [state |-> "parse", refs |-> <<r1, r2>>, files |-> <<f1, f2>>,
                 clocks |-> <<0, at>>, recent |-> <<>>, new |-> Nil,
                 clock |-> at, result |-> Nil]

\* parse_event("push", payload) on the next of the two payloads.
ParsePush ==
    /\ dc.state = "parse"
    /\ LET k     == Len(dc.recent) + 1
           event == ParseEvent("push", BranchPush(dc.refs[k], dc.files[k]),
                               dc.clocks[k], k)
       IN  dc' = IF k = 1
                 THEN [dc EXCEPT !.recent = <<event>>]
                 ELSE [dc EXCEPT !.new = event, !.state = "call"]
    /\ UNCHANGED <<backendVars, now, taskVars, countVars, readVars, connVars, listenerVars>>

NextBranches == ParsePush \/ DetectCall

SpecBranches == InitBranches /\ [][NextBranches]_vars

(***************************************************************************)
(* Properties                                                              *)
(***************************************************************************)
StoredEvents == [i \in 1..Len(window) |-> JsonLoads(window[i])]

Quiescent == \A t \in Tasks : pc[t] \in {"idle", "open", "closed"}

\* The list as it is after the texts of `history` were pushed, one after
\* the other, onto the initial list: the newest MAX_RECENT_EVENTS of them,
\* newest first.
NewestOf(history) ==
    Take(Reverse(history) \o WindowAfter(earlier), MAX_RECENT_EVENTS)

\* C1 as stated: once the publish_event calls made so far have returned or
\* raised, the window holds exactly the min(k, 100) most recently appended
\* events, newest first, k being the number of successful appends.
C1_WindowHoldsSuccessfulAppends ==
    Quiescent => window = NewestOf(succeeded)

\* C1 as amended: in every state the window holds exactly the min(k, 100)
\* most recently pushed entries, newest first, k being the number of times
\* the backend executed a publish_event transaction (attempts reported as
\* failed included); its length never exceeds 100 and only the oldest
\* entries are evicted.
C1_WindowHoldsNewestPushed ==
    /\ Len(window) <= MAX_RECENT_EVENTS
    /\ window = NewestOf(applied)

\* Two events were appended by interleaved calls and the oldest entry of a
\* full window was evicted.
C1_EvictionReached ==
    /\ Len(succeeded) >= 2
    /\ earlier + Len(applied) > MAX_RECENT_EVENTS
    /\ Len(window) = MAX_RECENT_EVENTS

\* C5: every completed _retry call, whichever of the three operations it
\* wraps, made at most 3 attempts, slept the fixed delay between consecutive
\* attempts and not after the last, returned at its first successful
\* attempt, and raised only after 3 failed attempts, the exception raised
\* being that of the third; a call in progress obeys the same bounds.
C5_RetryPolicy ==
    \A t \in Tasks :
        /\ Len(tries[t]) < RETRIES
        /\ \A i \in 1..Len(tries[t]) : tries[t][i] # "ok"
        /\ Len(naps[t]) \in {Len(tries[t]), Len(tries[t]) - 1}
        /\ lastOp[t] # Nil =>
             LET r == lastOp[t]
                 n == Len(r.tries)
             IN  /\ r.op \in {"publish_event", "get_recent_events", "get_stats"}
                 /\ n \in 1..RETRIES
                 /\ r.naps = [i \in 1..(n - 1) |-> RETRY_DELAY]
                 /\ \A i \in 1..(n - 1) : r.tries[i] # "ok"
                 /\ r.result.kind = "return" <=> r.tries[n] = "ok"
                 /\ r.result.kind = "raise" =>
                        /\ n = RETRIES
                        /\ r.result.exc = [op |-> r.op, attempt |-> RETRIES]

\* One call raised after three failed attempts and another one returned.
C5_ExhaustedAndReturned ==
    \E t1, t2 \in Procs :
        /\ lastOp[t1] # Nil /\ lastOp[t1].result.kind = "raise"
        /\ lastOp[t2] # Nil /\ lastOp[t2].result.kind = "return"

DetectReturned == dc # Nil /\ dc.state = "returned"

DetectApplies ==
    /\ dc.new.event_type = "push"
    /\ dc.new.files_changed # <<>>
    /\ TsParses(dc.new.timestamp)

Overlap(cand) == Range(dc.new.files_changed) \cap Range(cand.files_changed)

\* C7: for a push with files, detect_conflicts returns an alert exactly when
\* some candidate is a push on a different non-empty branch, with
\* new.timestamp - candidate.timestamp at most 10 minutes (exactly 10
\* included) and a shared file; the alert then names the new branch, that
\* candidate's branch and the shared files.  It returns nothing when the new
\* event is not a push or has no files.
C7_AlertExactlyOnConflict ==
    DetectReturned =>
        /\ DetectApplies =>
             /\ dc.result # NoAlert <=>
                    \E i \in 1..Len(dc.recent) : ConflictsWith(dc.new, dc.recent[i])
             /\ \A i \in 1..Len(dc.recent) :
                    ConflictsWith(dc.new, dc.recent[i]) =>
                        /\ dc.new.branch \in Range(dc.result.branches)
                        /\ dc.recent[i].branch \in Range(dc.result.branches)
                        /\ Overlap(dc.recent[i]) \subseteq Range(dc.result.conflicting_files)
        /\ (dc.new.event_type # "push" \/ dc.new.files_changed = <<>>) =>
             dc.result = NoAlert

\* An alert was returned for a candidate exactly 10 minutes older.
C7_AlertAtWindowEdge ==
    /\ DetectReturned
    /\ DetectApplies
    /\ dc.result # NoAlert
    /\ Len(dc.recent) = 1
    /\ FromIso(dc.new.timestamp) - FromIso(dc.recent[1].timestamp) = WINDOW_MINUTES

IsNewer(cand) ==
    /\ TsParses(cand.timestamp)
    /\ FromIso(cand.timestamp) > FromIso(dc.new.timestamp)

Attempted(p) == {p.attempts[i][1] : i \in DOMAIN p.attempts}

FailedIn(p) == {p.attempts[i][1] : i \in {j \in DOMAIN p.attempts : p.attempts[j][2] # "ok"}}

\* C2: every broadcast pass that has ended did not raise, attempted delivery
\* to every connection that was in the active set, and left no connection
\* whose send failed in the active set.
C2_BroadcastPassCompletes ==
    \A i \in DOMAIN passes :
        /\ ~passes[i].raised
        /\ passes[i].start \subseteq Attempted(passes[i])
        /\ FailedIn(passes[i]) \cap passes[i].after = {}

\* C3: while a broadcast is suspended on a send, the active set is the set
\* its loop began to iterate: no connect or disconnect has changed it.
C3_NoMutationDuringIteration ==
    lPc = "send" => active = bStart

\* C4: broadcasts happen in publication order: the passes that have ended
\* carry increasing publication numbers, a pass in progress carries a later
\* number than every pass that ended, and no connection receives an earlier
\* published event after a later one.
C4_BroadcastInPublicationOrder ==
    /\ \A i, j \in DOMAIN passes : i < j => passes[i].seq < passes[j].seq
    /\ lPc = "send" => \A i \in DOMAIN passes : passes[i].seq < bMsg.seq
    /\ \A c \in Conns : \A i, j \in DOMAIN received[c] :
           i < j => received[c][i].seq <= received[c][j].seq

C4_TwoEventsDelivered ==
    \E c \in Conns :
        /\ pc[c] = "open"
        /\ Len(received[c]) = 2
        /\ received[c][1].seq < received[c][2].seq
        /\ Len(passes) = 2

\* C9: a connection whose seed send failed is not in the active set once
\* connect has returned.
C9_SeedFailureAbortsRegistration ==
    \A c \in Conns : (seedFailed[c] /\ pc[c] = "open") => c \notin active

ConnectReturned(c) == pc[c] = "open" \/ (pc[c] = "closed" /\ lastOp[c].result.kind = "return")

\* C10 as stated: a connection whose connect has returned was sent exactly
\* the min(10, n) newest of the n events supplied, newest first.
C10_SeedExactlyTen ==
    \A c \in Conns :
        ConnectReturned(c) => seedSent[c] = Take(wsRecent[c], SEED_LIMIT)

\* C10: seed sends go to the attaching connection only and walk the
\* min(10, n) newest of the n events supplied, newest first: nothing is sent
\* before the connection is accepted, what has been sent is always a prefix
\* of those events, all of them have been sent when connect returns without
\* a failed send, and after a failed send the failed event is the last one.
C10_SeedIsNewestPrefix ==
    \A c \in Conns :
        LET seed == Take(wsRecent[c], SEED_LIMIT)
        IN  /\ IsPrefix(seedSent[c], seed)
            /\ Len(seedSent[c]) <= SEED_LIMIT
            /\ pc[c] \in {"idle", "attempt", "sleep", "accept"} => seedSent[c] = <<>>
            /\ pc[c] = "seed" => Len(seedSent[c]) = seedIdx[c] - 1
            /\ (ConnectReturned(c) /\ ~seedFailed[c]) => seedSent[c] = seed
            /\ seedFailed[c] => seedSent[c] # <<>>
            /\ IsPrefix(wsRecent[c], RecentEvents(window, MAX_RECENT_EVENTS))

C10_TenOfTwelveSent ==
    \E c, d \in Conns :
        /\ c # d
        /\ d \in active
        /\ pc[c] = "open"
        /\ ~seedFailed[c]
        /\ Len(wsRecent[c]) = WS_RECENT_COUNT + 2
        /\ Len(seedSent[c]) = SEED_LIMIT
        /\ received[d] = <<>>


(***************************************************************************)
(* get_recent_events                                                       *)
(***************************************************************************)
\* C11: what get_recent_events(n) returned, for every n >= 0, holds at most
\* min(n, 100, size of the window) events, and they are the newest entries
\* of the window, newest first.
C11_RecentAtMostCount ==
    \A t \in Procs :
        (response[t] # Nil /\ response[t].status = "ok"
                           /\ response[t].op = "get_recent_events") =>
            /\ Len(response[t].body) <=
                   Min(response[t].count, Min(MAX_RECENT_EVENTS, Len(window)))
            /\ IsPrefix(response[t].body, StoredEvents)


(***************************************************************************)
(* Dead connections and the listener's end                                 *)
(***************************************************************************)
\* C12: a connection whose send failed in a broadcast pass is out of the
\* active set when that pass has ended, and no later pass attempts a
\* delivery to it.
C12_DeadRemovedAfterOnePass ==
    \A i \in DOMAIN passes : \A c \in FailedIn(passes[i]) :
        /\ c \notin passes[i].after
        /\ \A j \in DOMAIN passes : j > i => c \notin Attempted(passes[j])

\* The listener task has ended after lifespan cancelled it.
EndedCancelled == lPc \in {"done_c", "failed_c", "cancelled"}

\* The listener task has ended after an error in its loop.
EndedOnError == lPc \in {"done", "failed"}

\* C13: when the listener task has ended after a cancellation, whatever it
\* was doing when cancelled, it has unsubscribed and closed: no subscription
\* is left open.
C13_CancelLeavesNoSubscription ==
    EndedCancelled => (~subscribed /\ lPc # "failed_c")

\* C14: when the listener task has ended after an error raised in its loop,
\* it has unsubscribed and closed its subscription and the error has not
\* left the task.
C14_ErrorCleansUp ==
    EndedOnError => (~subscribed /\ lPc = "done")


NewTime ==
    IF "timestamp" \in DOMAIN dc.new /\ TsParses(dc.new.timestamp)
    THEN FromIso(dc.new.timestamp) ELSE dc.clock

\* The candidates that overlap: pushes on another, non-empty branch, not
\* more than 10 minutes older than the new event, sharing a file with it.
Overlapping ==
    {i \in DOMAIN dc.recent :
        /\ dc.recent[i].event_type = "push"
        /\ dc.recent[i].branch \notin {"", dc.new.branch}
        /\ "timestamp" \in DOMAIN dc.recent[i]
        /\ TsParses(dc.recent[i].timestamp)
        /\ NewTime - FromIso(dc.recent[i].timestamp) <= WINDOW_MINUTES
        /\ Overlap(dc.recent[i]) # {}}

AlertReturned == DetectReturned /\ dc.result.type = "conflict_risk"

Position(x, order) == CHOOSE i \in DOMAIN order : order[i] = x

StrictlySorted(seq, order) ==
    \A i, j \in DOMAIN seq : i < j => Position(seq[i], order) < Position(seq[j], order)

\* C16: the severity of every alert returned is high if and only if the
\* distinct files shared with the overlapping candidates, all branches
\* together, are 3 or more, and medium otherwise.
C16_SeverityByDistinctFiles ==
    AlertReturned =>
        LET files == UNION {Overlap(dc.recent[i]) : i \in Overlapping}
        IN  /\ dc.result.severity \in {"high", "medium"}
            /\ dc.result.severity = "high" <=> Cardinality(files) >= 3
            /\ Cardinality(files) >= 1

\* A high alert whose three files come from two candidates on two branches,
\* none of which shares three files by itself.
C16_HighFromTwoBranches ==
    /\ AlertReturned
    /\ dc.result.severity = "high"
    /\ Len(dc.result.conflicting_files) = 3
    /\ \A i \in DOMAIN dc.recent : Cardinality(Overlap(dc.recent[i])) < 3

\* C17: in every alert returned, branches[0] is the new event's branch, that
\* branch occurs nowhere else in branches, and the rest of branches is
\* exactly the set of branches of the overlapping candidates, sorted and
\* without duplicates.
C17_BranchesNewFirstThenSorted ==
    AlertReturned =>
        LET rest == Tail(dc.result.branches)
        IN  /\ dc.result.branches[1] = dc.new.branch
            /\ dc.new.branch \notin Range(rest)
            /\ Range(rest) = {dc.recent[i].branch : i \in Overlapping}
            /\ StrictlySorted(rest, BranchNames)

\* An alert that names two conflicting branches after the new event's.
C17_TwoConflictingBranches ==
    /\ AlertReturned
    /\ Len(dc.result.branches) = 3

\* C18: in every alert returned, conflicting_files is not empty, sorted and
\* without duplicates, and holds exactly the files the new event shares with
\* some overlapping candidate; all of them are files of the new event.
C18_FilesAreUnionOfOverlaps ==
    AlertReturned =>
        /\ dc.result.conflicting_files # <<>>
        /\ StrictlySorted(dc.result.conflicting_files, FileNames)
        /\ Range(dc.result.conflicting_files)
               = UNION {Overlap(dc.recent[i]) : i \in Overlapping}
        /\ Range(dc.result.conflicting_files) \subseteq Range(dc.new.files_changed)

\* An alert built from two overlapping candidates that share different
\* files with the new event.
C18_UnionOfTwoOverlaps ==
    /\ AlertReturned
    /\ Cardinality(Overlapping) = 2
    /\ \E i, j \in Overlapping : Overlap(dc.recent[i]) \cap Overlap(dc.recent[j]) = {}


\* The timestamp of event e is missing or is not an ISO text.
BadTs(e) == "timestamp" \notin DOMAIN e \/ ~TsParses(e.timestamp)

\* The new event with a missing or malformed timestamp replaced by the
\* current time.
NewWithTime ==
    IF BadTs(dc.new)
    THEN [k \in DOMAIN dc.new \cup {"timestamp"} |->
             IF k = "timestamp" THEN IsoFormat(dc.clock) ELSE dc.new[k]]
    ELSE dc.new

\* C19: detect_conflicts never fails because of timestamps: it returns what
\* it returns for the candidates whose timestamp is present, well formed and
\* comparable with the new event's, the new event's timestamp being
\* replaced by the current time when it is missing or malformed.
C19_NeverFailsOnTimestamps ==
    DetectReturned =>
        /\ dc.result.type # "raise"
        /\ dc.result =
               DetectConflicts(NewWithTime,
                               SelectSeq(dc.recent,
                                         LAMBDA c : /\ ~BadTs(c)
                                                    /\ Comparable(c.timestamp,
                                                                  NewWithTime.timestamp)),
                               dc.clock)


ParseReturned == dc # Nil /\ dc.state = "returned"

\* Field f of the called payload is absent, null or empty (head, base and
\* user also when pull_request is), or holds only null members.
Unfilled(f) == f \in DOMAIN dc.fields => dc.fields[f] # "value"

\* C20: parse_event never raises, whatever the event kind and however
\* partial the payload: it returns an Event in which every field whose
\* payload source is absent, null or empty has its default (actor 'unknown',
\* avatar '', repository 'unknown/unknown', branch '', no files_changed).
C20_ParseNeverRaises ==
    ParseReturned =>
        /\ dc.result.type = "event"
        /\ LET event == dc.result.event
           IN  /\ Unfilled("sender") =>
                      event.actor = "unknown" /\ event.actor_avatar = ""
               /\ Unfilled("repository") => event.repository = "unknown/unknown"
               /\ dc.event_type = "push" /\ Unfilled("ref") => event.branch = ""
               /\ dc.event_type = "push" /\ dc.fields["commits"] \in {"absent", "null", "empty"}
                      => event.files_changed = <<>>
               /\ dc.event_type = "pull_request"
                  /\ (Unfilled("pull_request") \/ Unfilled("head"))
                      => event.branch = ""
               /\ dc.event_type \in {"create", "delete"} /\ Unfilled("ref")
                      => event.branch = ""


\* Every path named in the added, modified or removed list of a commit of
\* the called payload.
PathsNamed ==
    {path \in Range(FileNames) :
        \E i \in DOMAIN dc.payload.commits :
        \E k \in {"added", "modified", "removed"} :
            path \in Range(dc.payload.commits[i][k])}

\* C21: the files_changed of a push event is sorted, has no duplicates and
\* holds exactly the paths named in the added, modified and removed lists of
\* all commits, whatever their order and repetitions; the files_changed of
\* any other event is empty.
C21_FilesChangedSortedUnion ==
    ParseReturned /\ dc.result.type = "event" =>
        LET files == dc.result.event.files_changed
        IN  IF dc.event_type = "push"
            THEN /\ StrictlySorted(files, FileNames)
                 /\ Range(files) = PathsNamed
            ELSE files = <<>>

\* A push whose two commits repeat a path and list paths out of order.
C21_RepeatedUnorderedPaths ==
    /\ ParseReturned
    /\ dc.event_type = "push"
    /\ dc.result.type = "event"
    /\ Len(dc.payload.commits) = 2
    /\ dc.payload.commits[1].added = <<"b.py", "a.py">>
    /\ dc.payload.commits[2].modified = <<"c.py", "c.py">>
    /\ dc.payload.commits[2].removed = <<"c.py", "a.py">>
    /\ dc.result.event.files_changed = <<"a.py", "b.py", "c.py">>


\* The called payload's ref, "" when it has none.
CalledRef == Get(dc.payload, "ref", <<"">>)

PushParsed ==
    /\ ParseReturned
    /\ dc.event_type = "push"
    /\ dc.result.type = "event"

BranchNameOf(ref) == SubSeq(ref, 3, Len(ref))

\* C23: a push to a branch whose name contains "/" (ref
\* refs/heads/feature/auth) yields the full branch name feature/auth as
\* branch and in the title.
C23_SlashBranchKept ==
    PushParsed /\ CalledRef = <<"refs", "heads", "feature", "auth">> =>
        /\ <<dc.result.event.branch>> = BranchNameOf(CalledRef)
        /\ <<dc.result.event.title.branch>> = BranchNameOf(CalledRef)


PullRequestParsed ==
    /\ ParseReturned
    /\ dc.event_type = "pull_request"
    /\ dc.result.type = "event"

\* The called pull_request payload has action "closed" and is marked merged.
CalledMerged ==
    /\ "action" \in DOMAIN dc.payload
    /\ dc.payload.action = "closed"
    /\ "merged" \in DOMAIN dc.payload.pull_request
    /\ dc.payload.pull_request.merged

\* C24: a pull_request payload yields event_type merge if and only if its
\* action is closed and it is marked merged, and pull_request otherwise; the
\* title has the "merged pull request #N into BASE" form exactly in the merge
\* case, and details.merged is the merged flag.
C24_MergeIffClosedAndMerged ==
    PullRequestParsed =>
        LET event == dc.result.event
        IN  /\ event.event_type = IF CalledMerged THEN "merge" ELSE "pull_request"
            /\ (event.title.form = "merged pull request") <=> CalledMerged
            /\ CalledMerged =>
                   /\ event.title.number = Get(dc.payload.pull_request, "number", "?")
                   /\ event.title.base =
                          Get(Get(dc.payload.pull_request, "base", <<>>), "ref", "main")
            /\ event.details.merged = ("merged" \in DOMAIN dc.payload.pull_request
                                       /\ dc.payload.pull_request.merged)

\* A closed and merged pull request #42 into dev, parsed to a merge event.
C24_MergedIntoDev ==
    /\ PullRequestParsed
    /\ CalledMerged
    /\ dc.result.event.event_type = "merge"
    /\ "number" \in DOMAIN dc.payload.pull_request
    /\ dc.result.event.title.form = "merged pull request"
    /\ dc.result.event.title.number = 42
    /\ dc.result.event.title.base = "dev"
    /\ dc.result.event.details.merged


DisconnectReturned == dc # Nil /\ dc.state = "returned" /\ "conn" \in DOMAIN dc

\* C25: disconnect of a connection in the active set removes that
\* connection and no other; disconnect of a connection that is not in the
\* set leaves the set as it is; disconnecting the same connection again
\* changes nothing.
C25_DisconnectIdempotent ==
    DisconnectReturned =>
        /\ dc.conn \notin dc.after
        /\ dc.after \cup (dc.before \cap {dc.conn}) = dc.before
        /\ Discard(dc.after, dc.conn) = dc.after

\* disconnect was called for a connection that a broadcast had pruned while
\* another connection stayed attached.
C25_DisconnectAfterPrune ==
    /\ DisconnectReturned
    /\ dc.conn \notin dc.before
    /\ dc.before # {}
    /\ dc.after = dc.before
    /\ \E i \in DOMAIN passes :
           /\ ~passes[i].raised
           /\ <<dc.conn, "fail">> \in Range(passes[i].attempts)
           /\ dc.before = passes[i].after


StatsReturned == dc # Nil /\ dc.state = "returned" /\ "list" \in DOMAIN dc

\* The events of the list get_stats was called on.
Listed == [i \in DOMAIN dc.list |-> JsonLoads(dc.list[i])]

\* Event i of that list carries a timestamp that is an ISO text.
Stamped(i) == "timestamp" \in DOMAIN Listed[i] /\ TsParses(Listed[i].timestamp)

\* Midnight of the UTC day of the call.
Midnight == CHOOSE m \in 0..dc.clock : m % MINUTES_PER_DAY = 0 /\ dc.clock - m < MINUTES_PER_DAY

StampedToday == {i \in DOMAIN dc.list : Stamped(i) /\ Listed[i].timestamp.t >= Midnight}

StampedLastHour ==
    {i \in DOMAIN dc.list : Stamped(i) /\ dc.clock - Listed[i].timestamp.t <= MINUTES_PER_HOUR}

\* C26: get_stats counts over the listed events: total_events_today those
\* stamped at or after the start of the current UTC day, active_contributors
\* the distinct actors of those stamped within the trailing hour,
\* branches_modified the distinct non-empty branches of today's events and
\* conflict_alerts today's events that carry an alert.
C26_StatsOverWindow ==
    StatsReturned =>
        dc.result =
            [total_events_today  |-> Cardinality(StampedToday),
             active_contributors |->
                 Cardinality({Listed[i].actor : i \in StampedLastHour}),
             branches_modified   |->
                 Cardinality({b \in Range(BranchNames) :
                                 b # "" /\ \E i \in StampedToday : Listed[i].branch = b}),
             conflict_alerts     |->
                 Cardinality({i \in StampedToday : Listed[i].alert = SomeAlert})]

\* Half an hour after midnight: an event of the day before, within the
\* trailing hour, counts for the contributors and not for today.
C26_YesterdayWithinHour ==
    /\ StatsReturned
    /\ Len(dc.list) = 2
    /\ StampedToday = {1}
    /\ StampedLastHour = {1, 2}
    /\ dc.result = [total_events_today |-> 1, active_contributors |-> 2,
                    branches_modified |-> 1, conflict_alerts |-> 1]


\* The listed events whose timestamp is present, well formed and comparable
\* with the aware current time.
UsableListed ==
    SelectSeq(dc.list,
              LAMBDA text : /\ ~BadTs(JsonLoads(text))
                            /\ Comparable(JsonLoads(text).timestamp, IsoFormat(dc.clock)))

\* C27: an event whose timestamp is missing, malformed or not comparable
\* with the current UTC time is left out of the four counts: get_stats does
\* not fail and returns what it returns for the other events alone.
C27_UnusableTimestampsExcluded ==
    StatsReturned =>
        /\ "type" \notin DOMAIN dc.result
        /\ dc.result = GetStats(UsableListed, dc.clock)


\* Coroutine t holds the result of a get_stats call that returned.
HoldsStats(t) ==
    /\ response[t] # Nil
    /\ response[t].status = "ok"
    /\ response[t].op = "get_stats"

IngestedEvents ==
    {JsonLoads(window[i]) : i \in {j \in DOMAIN window : JsonLoads(window[j]).id > 0}}

\* Event e carries an alert that names branch b.
AlertNames(e, b) == e.alert # NoAlert /\ b \in Range(e.alert.branches)

\* C29: of two stored pushes on different non-empty branches that share a
\* file and were ingested within the window of each other, at least one
\* carries an alert naming the other's branch, however the two
\* receive_webhook executions interleave.
C29_ConcurrentConflictNeverMissed ==
    \A e1, e2 \in IngestedEvents :
        /\ e1.event_type = "push" /\ e2.event_type = "push"
        /\ e1.branch # e2.branch /\ e1.branch # "" /\ e2.branch # ""
        /\ Range(e1.files_changed) \cap Range(e2.files_changed) # {}
        /\ e1.timestamp.t - e2.timestamp.t <= WINDOW_MINUTES
        /\ e2.timestamp.t - e1.timestamp.t <= WINDOW_MINUTES
        => AlertNames(e1, e2.branch) \/ AlertNames(e2, e1.branch)


\* Nothing is in flight: no request is being served, no message waits on
\* the channel and the listener waits for the next message.
NothingInFlight ==
    /\ \A t \in Procs : pc[t] = "idle"
    /\ channel = <<>>
    /\ lPc = "listen"

\* Connection c was attached through the endpoint, was sent its seed and is
\* still connected.
Attached(c) == pc[c] = "open" /\ c \in active /\ ~seedFailed[c]

\* How often the stored text was delivered to c by broadcast.
Deliveries(c, text) == Cardinality({i \in DOMAIN received[c] : received[c][i].data = text})

\* C30: a client attached through the endpoint gets no broadcast before its
\* seed is sent, no event both in its seed and by broadcast, and every event
\* appended after its snapshot was read exactly once by broadcast.
C30_GapFreeDuplicateFreeStream ==
    \A c \in Conns :
        /\ pc[c] = "seed" => received[c] = <<>>
        /\ \A i \in DOMAIN received[c] :
               JsonLoads(received[c][i].data) \notin Range(seedSent[c])
        /\ Attached(c) /\ NothingInFlight =>
               \A i \in DOMAIN window :
                   JsonLoads(window[i]) \notin Range(wsRecent[c])
                       => Deliveries(c, window[i]) = 1


\* How often x stands in seq.
Occurrences(seq, x) == Cardinality({i \in DOMAIN seq : seq[i] = x})

\* Coroutine t's last _retry call was a publish_event that returned.
PublishReturned(t) ==
    /\ lastOp[t] # Nil
    /\ lastOp[t].op = "publish_event"
    /\ lastOp[t].result.kind = "return"

\* C31 as stated: an event whose publish_event call returned was pushed onto
\* the list exactly once and published exactly once, whatever attempts
\* failed before.
C31_ReturnedPublishAppliedOnce ==
    /\ pubCount = Len(applied)
    /\ \A x \in Range(succeeded) : Occurrences(applied, x) = 1

\* C31 as amended: an event whose publish_event call returned was pushed and
\* published together once by the successful attempt and once more by every
\* earlier attempt of the call that failed after the backend had executed
\* the batch: at least once, at most 3 times, and the call returned once.
C31_ReturnedPublishAppliedPerExecution ==
    /\ pubCount = Len(applied)
    /\ \A x \in Range(succeeded) :
           /\ Occurrences(succeeded, x) = 1
           /\ Occurrences(applied, x) \in 1..RETRIES
    /\ \A t \in Procs :
           PublishReturned(t) =>
               \E x \in Range(succeeded) :
                   Occurrences(applied, x) =
                       1 + Occurrences(lastOp[t].tries, "fail_applied")

\* A publish_event call returned at its second attempt, the first having
\* failed after the batch was executed: the event was pushed twice and two
\* messages carrying it were published to the subscribed listener.
C31_PushedTwiceReturnedOnce ==
    \E t \in Procs :
        /\ PublishReturned(t)
        /\ lastOp[t].tries = <<"fail_applied", "ok">>
        /\ Len(succeeded) = 1
        /\ Occurrences(applied, succeeded[1]) = 2
        /\ Occurrences([i \in DOMAIN channel |-> channel[i].data], succeeded[1]) = 2


\* C32 as stated: the timestamps of the events in the window never increase
\* from front to back, also when ingests interleave.
C32_WindowNewestFirstByTimestamp ==
    \A i, j \in DOMAIN window :
        i < j => JsonLoads(window[i]).timestamp.t >= JsonLoads(window[j]).timestamp.t

\* C32 as amended: the window is newest-first by insertion, the entries
\* standing in the reverse order of the pushes the backend executed; two
\* entries of this run that stand in the order in which they were
\* normalized (the ids count the parse_event calls) have non-increasing
\* timestamps, and only entries inserted out of that order can have
\* increasing ones.
C32_WindowNewestFirstByInsertion ==
    /\ window = NewestOf(applied)
    /\ \A i, j \in DOMAIN window :
           /\ i < j
           /\ StoredEvents[j].id > 0
           /\ StoredEvents[i].id > StoredEvents[j].id
           => StoredEvents[i].timestamp.t >= StoredEvents[j].timestamp.t

\* An event normalized first was inserted last: it stands in front of an
\* event with a later timestamp.
C32_OlderStampInFront ==
    /\ Len(window) >= 2
    /\ StoredEvents[1].id > 0
    /\ StoredEvents[2].id > StoredEvents[1].id
    /\ StoredEvents[1].timestamp.t < StoredEvents[2].timestamp.t

\* Both pushes are parsed.
BothParsed == dc # Nil /\ dc.state \in {"call", "returned"}

DifferentBranches == BranchNameOf(dc.refs[1]) # BranchNameOf(dc.refs[2])

\* C33: two pushes whose refs name different branches never get the same
\* normalized branch, and detect_conflicts on the later one, which shares a
\* file with the earlier one and is at most the window younger, returns an
\* alert naming the earlier one's branch.
C33_BranchIdentityPreserved ==
    BothParsed /\ DifferentBranches =>
        /\ dc.new.branch # dc.recent[1].branch
        /\ /\ dc.state = "returned"
           /\ Range(dc.new.files_changed) \cap Range(dc.recent[1].files_changed) # {}
           /\ dc.clocks[2] - dc.clocks[1] <= WINDOW_MINUTES
           => /\ dc.result # NoAlert
              /\ dc.recent[1].branch \in Range(dc.result.branches)

\* A step of broadcast: an awaited send has ended.
BroadcastStep ==
    lPc = "send" /\ (Len(passes') > Len(passes) \/ Len(bAttempted') > Len(bAttempted))

\* The sends of the pass so far, after the step.
AttemptsAfterStep ==
    IF Len(passes') > Len(passes) THEN passes'[Len(passes')].attempts ELSE bAttempted'

SentOnce(attempts) ==
    \A i, j \in DOMAIN attempts : attempts[i][1] = attempts[j][1] => i = j

\* C34: a step of broadcast adds no connection to the active set, removes
\* only connections whose send failed in the pass and none whose send
\* succeeded, has sent the message at most once to each connection in the
\* pass, and leaves the recent-event window as it was.
C34_BroadcastFrame ==
    [][BroadcastStep =>
          LET failed == {AttemptsAfterStep[i][1] :
                            i \in {j \in DOMAIN AttemptsAfterStep :
                                      AttemptsAfterStep[j][2] # "ok"}}
              sent   == {AttemptsAfterStep[i][1] :
                            i \in {j \in DOMAIN AttemptsAfterStep :
                                      AttemptsAfterStep[j][2] = "ok"}}
          IN  /\ active' \subseteq active
              /\ (active \ active') \subseteq failed
              /\ (active \ active') \cap sent = {}
              /\ SentOnce(AttemptsAfterStep)
              /\ window' = window]_vars


=============================================================================
